---- MODULE Spec2Model ----
(***************************************************************************)
(* A model of the PolarProject analysis scripts.                           *)
(*                                                                         *)
(* Every script is a batch transform: it reads one observation table,      *)
(* filters and groups it, and writes its result.  The input table is the   *)
(* variable `data` (a bag of rows, since no aggregate depends on the row   *)
(* order), a script run is one action, and what the run wrote is `out`.    *)
(***************************************************************************)
EXTENDS Integers, Sequences, FiniteSets, Bags, TLC

VARIABLES
    data,       \* the observation table read by pd.read_csv: a bag of rows
    script,     \* the script that has run on `data` ("none" before any run)
    exit,       \* how the run ended: "none", "ok" or "error" (uncaught exception)
    out,        \* the files the run wrote: file name -> rows
    SCIPY_AVAILABLE,        \* CMEMS_Maxent.py: whether the SciPy import succeeded
    self_data,              \* CorrectedHabitatAnalyzer.data
    species_data,           \* CorrectedHabitatAnalyzer.species_data
    habitat_suitability,    \* CorrectedHabitatAnalyzer.habitat_suitability
    layer,          \* CMEMStrans.py: the arguments of the save_monthly_layer call
    disk,           \* the .asc file on disk
    header,         \* ASCReader.header
    reader_data,    \* ASCReader.data
    read_result,    \* what read_asc_file returned: "none", "ok" or "failed"
    current_file,       \* MaxEntVisualizer.current_file
    visualize_button,   \* the state of MaxEntVisualizer.visualize_button
    gui_pc,             \* where the event loop is within select_file
    workers,            \* the threads started by visualize_threaded
    callbacks,          \* the callbacks queued by root.after(0, ...)
    progress,           \* MaxEntVisualizer.progress: "running" or "stopped"
    completed,          \* the callbacks the event loop has run
    file_path,          \* remixed-64e915ca.py: MaxEntGUI.file_path
    maxent_data,        \* MaxEntGUI.data
    processed_data,     \* MaxEntGUI.processed_data
    gui_env_vars,       \* MaxEntGUI.env_vars: variable -> its check box
    species_listbox,    \* MaxEntGUI.species_listbox: items and selection
    remove_duplicates,  \* MaxEntGUI.remove_duplicates (stays ticked)
    remove_na,          \* MaxEntGUI.remove_na (stays ticked)
    exported,           \* the files the step just taken wrote
    stack,              \* the handlers suspended in self.root.update()
    done,               \* the steps that have completed with success
    ds,                 \* CMEMStrans.py: the dataset MonthlyLayersConverter opened
    time_info,          \* MonthlyLayersConverter.time_info
    report,             \* what convert_all_monthly_layers wrote and how it ended
    proc_data,          \* maxent_python_processor.py: MaxEntDataProcessor.data
    proc_env_vars,      \* MaxEntDataProcessor.selected_env_vars
    env_swd             \* the columns of maxent_environment_swd.csv

tabVars == <<data, script, exit, out>>
habVars == <<SCIPY_AVAILABLE, self_data, species_data, habitat_suitability>>
ascVars == <<layer, disk, header, reader_data, read_result>>
guiVars == <<current_file, visualize_button, gui_pc, workers, callbacks,
             progress, completed>>
baseVars == <<tabVars, habVars, ascVars, guiVars>>
prepVars == <<file_path, maxent_data, processed_data, gui_env_vars,
              species_listbox, remove_duplicates, remove_na,
              exported, stack, done>>
convVars == <<ds, time_info, report>>
procVars == <<proc_data, proc_env_vars, env_swd>>
restVars == <<prepVars, convVars, procVars>>
vars == <<baseVars, restVars>>

(***************************************************************************)
(* Bounds of the model.                                                    *)
(***************************************************************************)
MaxRows == 3

(***************************************************************************)
(* Arithmetic helpers.                                                     *)
(***************************************************************************)
RECURSIVE Sum(_)
Sum(f) ==
    IF DOMAIN f = {} THEN 0
    ELSE LET x == CHOOSE y \in DOMAIN f : TRUE
         IN  f[x] + Sum([y \in DOMAIN f \ {x} |-> f[y]])

(***************************************************************************)
(* Cell values.  A missing cell of a string column is the string "NaN"; a  *)
(* Date cell is a day-month string "DD-Mon", kept as its two tokens, and   *)
(* the missing Date is the token pair NaNDate.  A parsed date is a         *)
(* timestamp [y, m, d]; NaT is the timestamp of a date that did not parse. *)
(***************************************************************************)
NaN == "NaN"
NaNDate == [d |-> 0, b |-> "nan"]
NaT == [y |-> 0, m |-> 0, d |-> 0]

AssumedYear == 2023

\* strptime's %b table and the month lengths of a non-leap year (2023).
MonthNumber ==
    [Jan |-> 1, Feb |-> 2, Mar |-> 3, Apr |-> 4, May |-> 5, Jun |-> 6,
     Jul |-> 7, Aug |-> 8, Sep |-> 9, Oct |-> 10, Nov |-> 11, Dec |-> 12]
DaysInMonth == <<31, 28, 31, 30, 31, 30, 31, 31, 30, 31, 30, 31>>

\* Does "DD-Mon-2023" match the format %d-%b-%Y (resp. %Y-%d-%b)?
strptime_ok(x) ==
    /\ x.b \in DOMAIN MonthNumber
    /\ x.d >= 1
    /\ x.d <= DaysInMonth[MonthNumber[x.b]]

strptime(x) == [y |-> AssumedYear, m |-> MonthNumber[x.b], d |-> x.d]

\* pd.to_datetime(f"{x}-2023", format='%d-%b-%Y', errors='coerce'): the missing
\* Date has become the string "nan-2023", which does not match either.
to_datetime_coerce(x) == IF strptime_ok(x) THEN strptime(x) ELSE NaT

\* .dt.to_period('M') of a timestamp.
to_period_M(ts) == [y |-> ts.y, m |-> ts.m]

(***************************************************************************)
(* The rows a table can hold.                                              *)
(***************************************************************************)
D01Jan == [d |-> 1, b |-> "Jan"]
D15Jan == [d |-> 15, b |-> "Jan"]
D01Feb == [d |-> 1, b |-> "Feb"]
D31Feb == [d |-> 31, b |-> "Feb"]     \* a day-month string that does not parse

\* The taxonomic class of a species (the Class column repeats it on every row).
ClassOf == [A |-> "Mammals", B |-> "Avians", C |-> "Avians", NaN |-> "NaN"]

Row(sp, dt, rg, cn) ==
    [Species |-> sp, Date |-> dt, Class |-> ClassOf[sp], Region |-> rg, Count |-> cn]

R2A == <<"2", "A">>
R10B == <<"1", "0", "B">>

\* Rows of the tables the percentage-share scripts are run on.
ShareRows ==
    { Row(sp, dt, R2A, cn) :
        sp \in {"A", "B", "C", NaN}, dt \in {D01Jan, D15Jan, D01Feb, D31Feb},
        cn \in {0, 1, 3} }

CountSum(t, S) == Sum([r \in S |-> r.Count * t[r]])

(***************************************************************************)
(* 月度物种占比.py and 月度物种占比分鸟类与哺乳动物.py                     *)
(***************************************************************************)
\* A share: Count / total * 100 as the exact fraction num/den; 0/0 is NaN.
NaNShare == [num |-> 0, den |-> 0]
Percent(count, total) ==
    IF total = 0 THEN NaNShare ELSE [num |-> count * 100, den |-> total]

\* data.dropna(subset=['Date']) after the coercing parse, then
\* data.dropna(subset=['Species']); the rows keep their parsed Date.
share_dropna(t) ==
    { r \in BagToSet(t) :
        to_datetime_coerce(r.Date) # NaT /\ r.Species # NaN }

share_dropna_class(t) == { r \in share_dropna(t) : r.Class # NaN }

\* groupby(['Date', 'Species'])['Count'].sum().reset_index()
monthly_species_count_key(r) == <<to_datetime_coerce(r.Date), r.Species>>

monthly_species_count(t, rows) ==
    { [Date |-> k[1], Species |-> k[2],
       Count |-> CountSum(t, {r \in rows : monthly_species_count_key(r) = k})] :
        k \in {monthly_species_count_key(r) : r \in rows} }

\* The total taken over the whole table, the grouping by Date forgotten.
monthly_total_count_ungrouped(msc, g) == Sum([h \in msc |-> h.Count])

\* monthly_species_count.groupby('Date')['Count'].transform('sum'), for one row
monthly_total_count(msc, g) ==
    Sum([h \in {h \in msc : h.Date = g.Date} |-> h.Count])

\* the 'percentage' column added, i.e. the rows of the CSV written
with_percentage(msc) ==
    { [Date |-> g.Date, Species |-> g.Species, Count |-> g.Count,
       percentage |-> Percent(g.Count, monthly_total_count(msc, g))] : g \in msc }

\* One output file, written only when the grouped table is not empty.
share_file(name, msc) ==
    IF msc = {} THEN <<>> ELSE [f \in {name} |-> with_percentage(msc)]

Species_ratio_Monthly(t) ==
    share_file("Species_ratio", monthly_species_count(t, share_dropna(t)))

category_ratio_Monthly(t, category, name) ==
    share_file(name,
        monthly_species_count(t,
            {r \in share_dropna_class(t) : r.Class = category}))

Merge(f, g) ==
    [x \in DOMAIN f \cup DOMAIN g |-> IF x \in DOMAIN f THEN f[x] ELSE g[x]]

(***************************************************************************)
(* Actions.                                                                *)
(***************************************************************************)
\* The table is extended by one observation row (the CSV is edited before a run).
AddRow(rows) ==
    /\ script = "none"
    /\ BagCardinality(data) < MaxRows
    /\ \E r \in rows : data' = data (+) SetToBag({r})
    /\ UNCHANGED <<script, exit, out>>
    /\ UNCHANGED <<habVars, ascVars, guiVars, restVars>>

AddShareRow == AddRow(ShareRows)

\* 月度物种占比.py
RunShare ==
    /\ script = "none"
    /\ script' = "share"
    /\ exit' = "ok"
    /\ out' = Species_ratio_Monthly(data)
    /\ UNCHANGED data
    /\ UNCHANGED <<habVars, ascVars, guiVars, restVars>>

\* 月度物种占比分鸟类与哺乳动物.py
RunShareByClass ==
    /\ script = "none"
    /\ script' = "share_class"
    /\ exit' = "ok"
    /\ out' = Merge(category_ratio_Monthly(data, "Mammals", "Mammals_ratio"),
                    category_ratio_Monthly(data, "Avians", "Avians_ratio"))
    /\ UNCHANGED data
    /\ UNCHANGED <<habVars, ascVars, guiVars, restVars>>

(***************************************************************************)
(* 香农指数-月度.py                                                        *)
(***************************************************************************)
\* Rows of the tables the Shannon script is run on.
ShannonRows ==
    { Row(sp, dt, R2A, cn) :
        sp \in {"A", "B", NaN}, dt \in {NaNDate, D01Jan, D15Jan, D01Feb, D31Feb},
        cn \in {0, 1, 3} }

\* data[data['Count'] > 0]
filtered_data(t) == { r \in BagToSet(t) : r.Count > 0 }

\* pd.to_datetime('2023-' + Date, format='%Y-%d-%b') with the default
\* errors='raise': a missing Date stays missing (NaT), a string that does not
\* match the format raises ValueError.
to_datetime_raises(rows) ==
    \E r \in rows : r.Date # NaNDate /\ ~strptime_ok(r.Date)

to_datetime(x) == IF x = NaNDate THEN NaT ELSE strptime(x)

\* 1000 * ln(n) rounded, n = 1..16 (np.log in fixed point).
LnMilli ==
    <<0, 693, 1099, 1386, 1609, 1792, 1946, 2079,
      2197, 2303, 2398, 2485, 2565, 2639, 2708, 2773>>

\* calculate_shannon_diversity(group): proportions = Count / Count.sum() has one
\* entry per row of the group; -sum(p * ln p) with p = c/T is
\* sum(c * (ln T - ln c)) / T, here in thousandths.
calculate_shannon_diversity(t, group) ==
    LET T == CountSum(t, group)
    IN  Sum([r \in group |-> t[r] * r.Count * (LnMilli[T] - LnMilli[r.Count])]) \div T

\* groupby(Date.dt.to_period('M')).apply(calculate_shannon_diversity): the rows
\* whose Date is NaT belong to no group.
month_groups(rows) ==
    { to_period_M(to_datetime(r.Date)) : r \in {q \in rows : q.Date # NaNDate} }

month_group(rows, m) ==
    { r \in rows : r.Date # NaNDate /\ to_period_M(to_datetime(r.Date)) = m }

shannon_diversity_month(t) ==
    { [Date |-> m,
       Shannon_Diversity |-> calculate_shannon_diversity(t, month_group(filtered_data(t), m))] :
        m \in month_groups(filtered_data(t)) }

AddShannonRow == AddRow(ShannonRows)

RunShannon ==
    /\ script = "none"
    /\ script' = "shannon"
    /\ IF to_datetime_raises(filtered_data(data))
         THEN exit' = "error" /\ out' = <<>>
         ELSE exit' = "ok" /\
              out' = [f \in {"shannon_diversity_month"} |-> shannon_diversity_month(data)]
    /\ UNCHANGED data
    /\ UNCHANGED <<habVars, ascVars, guiVars, restVars>>

(***************************************************************************)
(* Region codes and their sort keys.  A region code is a string, kept as   *)
(* the sequence of its characters.                                         *)
(***************************************************************************)
Digits == {"0", "1", "2", "3", "4", "5", "6", "7", "8", "9"}

\* str.isdigit()
isdigit(char) == char \in Digits

\* ord(char), for the comparison of Python strings
ord(char) ==
    CASE char = "0" -> 48 [] char = "1" -> 49 [] char = "2" -> 50
      [] char = "3" -> 51 [] char = "4" -> 52 [] char = "5" -> 53
      [] char = "6" -> 54 [] char = "7" -> 55 [] char = "8" -> 56
      [] char = "9" -> 57 [] char = "A" -> 65 [] char = "B" -> 66
      [] char = "C" -> 67

\* int(number) of a string of digits
RECURSIVE int(_)
int(number) ==
    IF number = <<>> THEN 0
    ELSE 10 * int(SubSeq(number, 1, Len(number) - 1))
         + (ord(number[Len(number)]) - 48)

\* The loop `for char in region` of region_sort_key of 物种丰富度_子区域月度.py:
\* number += char for a digit, letter += char for any other character.
RECURSIVE region_scan(_)
region_scan(region) ==
    IF region = <<>> THEN [number |-> <<>>, letter |-> <<>>]
    ELSE LET before == region_scan(SubSeq(region, 1, Len(region) - 1))
             char == region[Len(region)]
         IN  IF isdigit(char)
             THEN [number |-> Append(before.number, char), letter |-> before.letter]
             ELSE [number |-> before.number, letter |-> Append(before.letter, char)]

\* return (int(number) if number else 0, letter)
region_sort_key(region) ==
    <<int(region_scan(region).number), region_scan(region).letter>>

\* The same loop in 物种丰富度_子区域.py, where letter = char keeps the last
\* non-digit character only.
RECURSIVE region_scan_region(_)
region_scan_region(region) ==
    IF region = <<>> THEN [number |-> <<>>, letter |-> <<>>]
    ELSE LET before == region_scan_region(SubSeq(region, 1, Len(region) - 1))
             char == region[Len(region)]
         IN  IF isdigit(char)
             THEN [number |-> Append(before.number, char), letter |-> before.letter]
             ELSE [number |-> before.number, letter |-> <<char>>]

region_sort_key_region(region) ==
    <<int(region_scan_region(region).number), region_scan_region(region).letter>>

\* a < b for Python strings
RECURSIVE StrLess(_, _)
StrLess(a, b) ==
    IF b = <<>> THEN FALSE
    ELSE IF a = <<>> THEN TRUE
    ELSE IF ord(Head(a)) # ord(Head(b)) THEN ord(Head(a)) < ord(Head(b))
    ELSE StrLess(Tail(a), Tail(b))

\* k1 < k2 for the tuples (int, str)
KeyLess(k1, k2) == k1[1] < k2[1] \/ (k1[1] = k2[1] /\ StrLess(k1[2], k2[2]))

\* p < q for monthly periods
PeriodLess(p, q) == p.y < q.y \/ (p.y = q.y /\ p.m < q.m)

\* The rows S as the sequence ordered by the strict total order Less, a set
\* of pairs <<a, b>> with a before b.
SortRows(S, Less) ==
    [i \in 1..Cardinality(S) |->
        CHOOSE x \in S : Cardinality({y \in S : <<y, x>> \in Less}) = i - 1]


Range(seq) == {seq[i] : i \in DOMAIN seq}

(***************************************************************************)
(* The species-richness scripts.                                           *)
(***************************************************************************)
\* Rows of the tables the richness scripts are run on.
RichRows ==
    { Row(sp, dt, rg, cn) :
        sp \in {"A", "B", NaN}, dt \in {D01Jan, D01Feb, D31Feb},
        rg \in {R2A, R10B}, cn \in {0, 1} }

\* The species that occur on exactly one of the rows, as after
\* drop_duplicates(keep=False).
nunique_keep_false(rows) ==
    Cardinality({sp \in {r.Species : r \in rows} \ {NaN} :
                    Cardinality({r \in rows : r.Species = sp}) = 1})

\* ['Species'].nunique(): the distinct species of the rows, NaN not counted
nunique(rows) == Cardinality({r.Species : r \in rows} \ {NaN})

\* 物种丰富度_全年.py: filtered_data['Species'].nunique()
species_richness_year_all(t) == nunique(filtered_data(t))

\* groupby('Region'): the groups come out in the order of the Region strings
RegionOrder(a, b) == StrLess(a.Region, b.Region)

\* 物种丰富度_子区域.py: groupby('Region')['Species'].nunique(), then
\* sort_values(by='Region', key=region_sort_key); equal keys keep the order of
\* the grouping.
RegionKeyOrder(a, b) ==
    \/ KeyLess(region_sort_key_region(a.Region), region_sort_key_region(b.Region))
    \/ /\ region_sort_key_region(a.Region) = region_sort_key_region(b.Region)
       /\ RegionOrder(a, b)

species_richness_by_region_groups(t) ==
    { [Region |-> rg,
       Species_Richness |-> nunique({r \in filtered_data(t) : r.Region = rg})] :
        rg \in {r.Region : r \in filtered_data(t)} }

species_richness_by_region(t) ==
    LET groups == species_richness_by_region_groups(t)
    IN  SortRows(groups, {p \in groups \X groups : RegionKeyOrder(p[1], p[2])})

\* 物种丰富度_月度.py: groupby(month)['Species'].nunique(), sorted by Date
DateOrder(a, b) == PeriodLess(a.Date, b.Date)

species_richness_month_groups(t) ==
    { [Date |-> m,
       Species_Richness |-> nunique(month_group(filtered_data(t), m))] :
        m \in month_groups(filtered_data(t)) }

species_richness_month(t) ==
    LET groups == species_richness_month_groups(t)
    IN  SortRows(groups, {p \in groups \X groups : DateOrder(p[1], p[2])})

\* 物种丰富度_子区域月度.py: groupby(['Region', month])['Species'].nunique(),
\* then sort_values(by=['Sort_Region', 'Date']), a stable sort of the groups.
RegionMonthOrder(a, b) ==
    \/ KeyLess(region_sort_key(a.Region), region_sort_key(b.Region))
    \/ /\ region_sort_key(a.Region) = region_sort_key(b.Region)
       /\ \/ PeriodLess(a.Date, b.Date)
          \/ a.Date = b.Date /\ RegionOrder(a, b)

species_richness_by_region_month_groups(t) ==
    { [Region |-> k[1], Date |-> k[2],
       Species_Richness |->
           nunique({r \in month_group(filtered_data(t), k[2]) : r.Region = k[1]})] :
        k \in { <<r.Region, to_period_M(to_datetime(r.Date))>> :
                   r \in {q \in filtered_data(t) : q.Date # NaNDate} } }

species_richness_by_region_month(t) ==
    LET groups == species_richness_by_region_month_groups(t)
    IN  SortRows(groups, {p \in groups \X groups : RegionMonthOrder(p[1], p[2])})

\* 物种丰富度_各子区域物种丰富度占比.py
\* data.groupby('Date')['Species_Richness'].transform('sum'), for one row
total_species_richness_per_month(rows, g) ==
    Sum([h \in {h \in rows : h.Date = g.Date} |-> h.Species_Richness])

\* Species_Richness / total as the exact fraction; 0/0 is NaN
Rate(richness, total) ==
    IF total = 0 THEN NaNShare ELSE [num |-> richness, den |-> total]

region_rate_data(seq) ==
    [i \in DOMAIN seq |->
        [Region |-> seq[i].Region, Date |-> seq[i].Date,
         Region_Rate |-> Rate(seq[i].Species_Richness,
                              total_species_richness_per_month(Range(seq), seq[i]))]]

AddRichRow == AddRow(RichRows)

RunRichnessYear ==
    /\ script = "none"
    /\ script' = "richness_year"
    /\ exit' = "ok"
    /\ out' = [f \in {"species_richness_year_all"} |->
                 <<[Species_Richness |-> species_richness_year_all(data)]>>]
    /\ UNCHANGED data
    /\ UNCHANGED <<habVars, ascVars, guiVars, restVars>>

RunRichnessRegion ==
    /\ script = "none"
    /\ script' = "richness_region"
    /\ exit' = "ok"
    /\ out' = [f \in {"species_richness_by_region"} |-> species_richness_by_region(data)]
    /\ UNCHANGED data
    /\ UNCHANGED <<habVars, ascVars, guiVars, restVars>>

RunRichnessMonth ==
    /\ script = "none"
    /\ script' = "richness_month"
    /\ IF to_datetime_raises(filtered_data(data))
         THEN exit' = "error" /\ out' = <<>>
         ELSE exit' = "ok" /\
              out' = [f \in {"S39_BM_Monthly"} |-> species_richness_month(data)]
    /\ UNCHANGED data
    /\ UNCHANGED <<habVars, ascVars, guiVars, restVars>>

RunRichnessRegionMonth ==
    /\ script = "none"
    /\ script' = "richness_region_month"
    /\ IF to_datetime_raises(filtered_data(data))
         THEN exit' = "error" /\ out' = <<>>
         ELSE exit' = "ok" /\
              out' = [f \in {"S39_BM_RegionMonthly"} |-> species_richness_by_region_month(data)]
    /\ UNCHANGED data
    /\ UNCHANGED <<habVars, ascVars, guiVars, restVars>>

\* 物种丰富度_各子区域物种丰富度占比.py reads the file S39_BM_RegionMonthly.csv
\* that 物种丰富度_子区域月度.py wrote.
RunRegionRate ==
    /\ script = "richness_region_month"
    /\ exit = "ok"
    /\ script' = "region_rate"
    /\ exit' = "ok"
    /\ out' = Merge(out, [f \in {"S39_BM_RegionRateMonthly"} |->
                            region_rate_data(out["S39_BM_RegionMonthly"])])
    /\ UNCHANGED data
    /\ UNCHANGED <<habVars, ascVars, guiVars, restVars>>

(***************************************************************************)
(* CMEMS_Maxent.py: CorrectedHabitatAnalyzer.                              *)
(*                                                                         *)
(* Floating-point values are kept in fixed point: latitudes, longitudes    *)
(* and the grid resolution in thousandths of a degree, TempW in            *)
(* thousandths of a degree Celsius, Detph in metres, and every weight,     *)
(* density and suitability in thousandths (ONE is 1.0).  A missing number  *)
(* is NaNFloat.                                                            *)
(***************************************************************************)
ONE == 1000
NaNFloat == -99999999

min_observations == 15

env_vars == <<"TempW", "Salinity", "Detph", "pH", "CHL", "O2Con">>

\* math.sqrt on integers: the largest r with r * r <= n (Newton's iteration).
RECURSIVE isqrt_from(_, _)
isqrt_from(n, x) ==
    LET y == (x + n \div x) \div 2
    IN  IF y >= x THEN x ELSE isqrt_from(n, y)

isqrt(n) == IF n < 2 THEN n ELSE isqrt_from(n, n)

\* 1000 * exp(-k / 8) rounded, k = 0..61 (np.exp in fixed point).
ExpMilli ==
    <<1000, 882, 779, 687, 607, 535, 472, 417, 368, 325, 287, 253, 223, 197,
      174, 153, 135, 119, 105, 93, 82, 72, 64, 56, 50, 44, 39, 34, 30, 27, 24,
      21, 18, 16, 14, 13, 11, 10, 9, 8, 7, 6, 5, 5, 4, 4, 3, 3, 2, 2, 2, 2, 2,
      1, 1, 1, 1, 1, 1, 1, 1, 0>>

\* np.exp(-0.5 * z ** 2) for z = num / den, rounded to thousandths: 0 where
\* the value is below 0.0005 (z above 3.9), and den = 0 makes z infinite.
gauss(num, den) ==
    LET a == IF num < 0 THEN -num ELSE num
    IN  IF den = 0 \/ a \div den >= 40 THEN 0
        ELSE LET z == (a * ONE) \div den
                 k == (z * z) \div (250 * ONE)
             IN  IF k + 1 > Len(ExpMilli) THEN 0 ELSE ExpMilli[k + 1]

\* The records r of the bag sd, each as often as it occurs, summed over f[r].
BagSum(sd, f) == Sum([r \in BagToSet(sd) |-> sd[r] * f[r]])

\* A NumPy array holds its values: the function f, evaluated once.
ndarray(f) == LET a == f IN IF a = a THEN a ELSE a

\* A grid over lat_grid x lon_grid: a function of the index pairs <<i, j>>.
Cells(lat_grid, lon_grid) == (1..Len(lat_grid)) \X (1..Len(lon_grid))

\* np.arange(start, stop, step)
arange(start, stop, step) ==
    ndarray([i \in 1..(IF stop <= start THEN 0 ELSE (stop - start + step - 1) \div step) |->
        start + (i - 1) * step])

(* _calculate_environmental_stats *)
\* species_data[var].dropna(), as the sub-bag of the records that have a value
dropna_var(sd, var) == [r \in {q \in BagToSet(sd) : q[var] # NaNFloat} |-> sd[r]]

\* values.mean() and values.std() (the sample standard deviation)
values_mean(sd, var) ==
    BagSum(sd, [r \in BagToSet(sd) |-> r[var]]) \div BagCardinality(sd)

values_std(sd, var) ==
    LET mean == values_mean(sd, var)
    IN  isqrt(BagSum(sd, [r \in BagToSet(sd) |-> (r[var] - mean) * (r[var] - mean)])
              \div (BagCardinality(sd) - 1))

\* The statistics of the variables with more than 5 values (the quartiles,
\* which nothing reads, are left out).
SetMin(S) == CHOOSE x \in S : \A y \in S : x <= y
SetMax(S) == CHOOSE x \in S : \A y \in S : x >= y

calculate_environmental_stats(sd) ==
    [var \in {v \in Range(env_vars) : BagCardinality(dropna_var(sd, v)) > 5} |->
        [mean |-> values_mean(dropna_var(sd, var), var),
         std |-> values_std(dropna_var(sd, var), var),
         min |-> SetMin({r[var] : r \in BagToSet(dropna_var(sd, var))}),
         max |-> SetMax({r[var] : r \in BagToSet(dropna_var(sd, var))})]]

(* _analyze_by_species *)
\* self.data['Species'].value_counts()
species_counts(t) ==
    [sp \in {r.Species : r \in BagToSet(t)} |->
        BagSum(t, [r \in BagToSet(t) |-> IF r.Species = sp THEN 1 ELSE 0])]

valid_species(t) ==
    {sp \in DOMAIN species_counts(t) : species_counts(t)[sp] >= min_observations}

species_records(t, sp) == [r \in {q \in BagToSet(t) : q.Species = sp} |-> t[r]]

analyze_by_species(t) ==
    [sp \in valid_species(t) |->
        LET sd == species_records(t, sp)
        IN  [data |-> sd,
             count |-> BagCardinality(sd),
             env_stats |-> calculate_environmental_stats(sd),
             lat_range |-> <<SetMin({r.LAT : r \in BagToSet(sd)}),
                             SetMax({r.LAT : r \in BagToSet(sd)})>>,
             lon_range |-> <<SetMin({r.LONG : r \in BagToSet(sd)}),
                             SetMax({r.LONG : r \in BagToSet(sd)})>>]]

\* self.data.dropna(subset=['LAT', 'LONG', 'Species'])
load_dropna(t) ==
    [r \in {q \in BagToSet(t) :
              q.LAT # NaNFloat /\ q.LONG # NaNFloat /\ q.Species # NaN} |-> t[r]]

(* _calculate_density_suitability *)
\* the distance of the grid point (lat, lon) to the observation r
distance(lat, lon, r) ==
    isqrt((lon - r.LONG) * (lon - r.LONG) + (lat - r.LAT) * (lat - r.LAT))

\* species_data['Counts'].fillna(1)
obs_count(r) == IF r.Counts = NaNFloat THEN 1 ELSE r.Counts

\* np.std(distances) * 0.3 over the matrix grid points x observations
bandwidth(sd, lat_grid, lon_grid) ==
    LET cells == Cells(lat_grid, lon_grid)
        n == Cardinality(cells) * BagCardinality(sd)
        total(f) == Sum([c \in cells |-> BagSum(sd, f[c])])
        d == ndarray([c \in cells |-> [r \in BagToSet(sd) |->
                distance(lat_grid[c[1]], lon_grid[c[2]], r)]])
        mean == total(d) \div n
        var == total([c \in cells |-> [r \in BagToSet(sd) |->
                        (d[c][r] - mean) * (d[c][r] - mean)]]) \div n
    IN  (isqrt(var) * 3) \div 10

\* weights = np.exp(-0.5 * (distances / bandwidth) ** 2); np.sum(weights *
\* obs_counts, axis=1).  0 / 0 is NaN and makes the sum NaN.
kernel_density(sd, lat_grid, lon_grid) ==
    LET bw == bandwidth(sd, lat_grid, lon_grid)
    IN  ndarray([c \in Cells(lat_grid, lon_grid) |->
            IF bw = 0 /\ \E r \in BagToSet(sd) :
                            distance(lat_grid[c[1]], lon_grid[c[2]], r) = 0
            THEN NaNFloat
            ELSE BagSum(sd, [r \in BagToSet(sd) |->
                    gauss(distance(lat_grid[c[1]], lon_grid[c[2]], r), bw) * obs_count(r)])])

\* The branch without SciPy: weights = 1.0 / (distances + 0.01)
inverse_distance_density(sd, lat_grid, lon_grid) ==
    ndarray([c \in Cells(lat_grid, lon_grid) |->
        BagSum(sd, [r \in BagToSet(sd) |->
            ((ONE * ONE) \div (distance(lat_grid[c[1]], lon_grid[c[2]], r) + 10))
            * obs_count(r)])])

\* scipy.ndimage.gaussian_filter(sigma=1.0): the kernel exp(-k^2 / 2) of radius
\* 4, normalised, applied along each axis with the border mode 'reflect'.
GaussianKernel == <<0, 4, 54, 242, 399, 242, 54, 4, 0>>

reflect(i, n) ==
    LET j == (i - 1) % (2 * n)
    IN  IF j < n THEN j + 1 ELSE 2 * n - j

correlate1d(grid, n, m, axis) ==
    ndarray([c \in (1..n) \X (1..m) |->
        LET at(k) == IF axis = 0 THEN grid[<<reflect(c[1] + k, n), c[2]>>]
                     ELSE grid[<<c[1], reflect(c[2] + k, m)>>]
        IN  IF \E k \in -4..4 : at(k) = NaNFloat THEN NaNFloat
            ELSE Sum([k \in -4..4 |-> GaussianKernel[k + 5] * at(k)]) \div ONE])

gaussian_filter(grid, n, m) == correlate1d(correlate1d(grid, n, m, 0), n, m, 1)

calculate_density_suitability(scipy, sd, lat_grid, lon_grid) ==
    IF scipy
    THEN gaussian_filter(kernel_density(sd, lat_grid, lon_grid),
                         Len(lat_grid), Len(lon_grid))
    ELSE inverse_distance_density(sd, lat_grid, lon_grid)

(* _calculate_environmental_suitability *)
Abs(x) == IF x < 0 THEN -x ELSE x

\* estimated_temp = -2.0 + (lat_mesh + 80) * 0.5, scored around the mean of
\* TempW with the tolerance std + 0.1
temp_suitability(env_stats, lat) ==
    gauss((-2000 + (lat + 80000) \div 2) - env_stats["TempW"].mean,
          env_stats["TempW"].std + 100)

\* estimated_depth = 200 + np.abs(lat_mesh + 77) * 100, scored around the mean
\* of Detph with the tolerance std + 50
depth_suitability(env_stats, lat) ==
    gauss((200 + Abs(lat + 77000) \div 10) - env_stats["Detph"].mean,
          env_stats["Detph"].std + 50)

\* The environmental term with the uniform grid kept for no statistic only.
calculate_environmental_suitability_any(env_stats, lat_grid, lon_grid) ==
    ndarray([c \in Cells(lat_grid, lon_grid) |->
        IF Cardinality(DOMAIN env_stats) < 1 THEN ONE \div 2
        ELSE LET temp == IF "TempW" \in DOMAIN env_stats
                         THEN temp_suitability(env_stats, lat_grid[c[1]]) ELSE ONE
                 depth == IF "Detph" \in DOMAIN env_stats
                          THEN depth_suitability(env_stats, lat_grid[c[1]]) ELSE ONE
             IN  (temp * depth) \div ONE])

calculate_environmental_suitability(env_stats, lat_grid, lon_grid) ==
    ndarray([c \in Cells(lat_grid, lon_grid) |->
        IF Cardinality(DOMAIN env_stats) < 2 THEN ONE \div 2
        ELSE LET temp == IF "TempW" \in DOMAIN env_stats
                         THEN temp_suitability(env_stats, lat_grid[c[1]]) ELSE ONE
                 depth == IF "Detph" \in DOMAIN env_stats
                          THEN depth_suitability(env_stats, lat_grid[c[1]]) ELSE ONE
             IN  (temp * depth) \div ONE])

(* _calculate_habitat_suitability *)
\* The two terms combined by their arithmetic mean in place of the geometric.
combined_suitability_mean(density, env) ==
    ndarray([c \in DOMAIN density |->
        IF density[c] = NaNFloat THEN NaNFloat ELSE (density[c] + env[c]) \div 2])

\* np.sqrt(suitability_density * suitability_env)
combined_suitability(density, env) ==
    ndarray([c \in DOMAIN density |->
        IF density[c] = NaNFloat THEN NaNFloat ELSE isqrt(density[c] * env[c])])

\* ndarray.max(): NaN if a cell is NaN
grid_max(grid) ==
    IF \E c \in DOMAIN grid : grid[c] = NaNFloat THEN NaNFloat
    ELSE SetMax({grid[c] : c \in DOMAIN grid})

\* A rescaling by the sum of the cells in place of the largest one.
rescale_by_sum(grid) ==
    LET sum == Sum(grid)
    IN  IF grid_max(grid) # NaNFloat /\ sum > 0
        THEN ndarray([c \in DOMAIN grid |-> (grid[c] * ONE) \div sum])
        ELSE grid

\* if combined_suitability.max() > 0:
\*     combined_suitability = combined_suitability / combined_suitability.max()
rescale(grid) ==
    LET max == grid_max(grid)
    IN  IF max # NaNFloat /\ max > 0
        THEN ndarray([c \in DOMAIN grid |-> (grid[c] * ONE) \div max])
        ELSE grid

calculate_habitat_suitability(scipy, sd, env_stats, lat_grid, lon_grid) ==
    rescale(combined_suitability(
        calculate_density_suitability(scipy, sd, lat_grid, lon_grid),
        calculate_environmental_suitability(env_stats, lat_grid, lon_grid)))

(* generate_species_suitability_maps *)
\* lat_margin = (lat_max - lat_min) * 0.15, and so for the longitude
margin(range) == ((range[2] - range[1]) * 15) \div 100

grid_of(range, resolution) ==
    arange(range[1] - margin(range), range[2] + margin(range), resolution)

\* The entry of habitat_suitability for one species.
species_map(scipy, info, resolution) ==
    LET lat_grid == grid_of(info.lat_range, resolution)
        lon_grid == grid_of(info.lon_range, resolution)
    IN  [lat_grid |-> lat_grid,
         lon_grid |-> lon_grid,
         suitability |-> calculate_habitat_suitability(
                            scipy, info.data, info.env_stats, lat_grid, lon_grid),
         observations |-> info.data]

\* An array without cells: combined_suitability.max() raises ValueError (zero-
\* size array to reduction operation maximum), if nothing raised before it.
map_raises(info, resolution) ==
    Cells(grid_of(info.lat_range, resolution), grid_of(info.lon_range, resolution)) = {}

(***************************************************************************)
(* The rows of JTRES.csv the analyzer is run on, and its actions.          *)
(***************************************************************************)
MaxObs == 18

HabRow(sp, lat, lon, cnt, temp, sal, dep) ==
    [Species |-> sp, LAT |-> lat, LONG |-> lon, Counts |-> cnt,
     TempW |-> temp, Salinity |-> sal, Detph |-> dep,
     pH |-> NaNFloat, CHL |-> NaNFloat, O2Con |-> NaNFloat]

HabRows ==
    { HabRow("A", at[1], at[2], obs[1], obs[2], obs[3], obs[4]) :
        at \in {<<NaNFloat, 170000>>, <<-70000, 170000>>,
                <<-70000, 170100>>, <<-69900, 170100>>},
        obs \in {<<NaNFloat, NaNFloat, NaNFloat, NaNFloat>>,
                  <<0, -1500, NaNFloat, 400>>,
                  <<2, 3000, NaNFloat, 900>>,
                  <<2, 3000, 34000, NaNFloat>>,
                  <<2, 3000, NaNFloat, NaNFloat>>} }

\* The number of records of one observation added to the file.
ObsBatch == {5, 6, 9}

\* The resolutions the maps are generated with: 0.06 (main) and 0.08 (default).
Resolutions == {60, 80}

AddObs ==
    /\ script = "none"
    /\ \E r \in HabRows, n \in ObsBatch :
         /\ BagCardinality(data) + n <= MaxObs
         /\ data' = data (+) [x \in {r} |-> n]
    /\ UNCHANGED <<script, exit, out, habVars, ascVars, guiVars, restVars>>

\* load_and_analyze_data, the file found and read
LoadAndAnalyze ==
    /\ script = "none"
    /\ script' = "loaded"
    /\ exit' = "ok"
    /\ self_data' = load_dropna(data)
    /\ species_data' = analyze_by_species(load_dropna(data))
    /\ UNCHANGED <<data, out, SCIPY_AVAILABLE, habitat_suitability, ascVars, guiVars, restVars>>

\* generate_species_suitability_maps(resolution): the species are mapped one
\* after the other, and the first one that raises ends the call.
RECURSIVE maps_until_raise(_, _, _, _)
maps_until_raise(scipy, infos, order, resolution) ==
    IF order = <<>> \/ map_raises(infos[Head(order)], resolution) THEN <<>>
    ELSE Merge([sp \in {Head(order)} |-> species_map(scipy, infos[sp], resolution)],
               maps_until_raise(scipy, infos, Tail(order), resolution))

\* The order of the dictionary: value_counts() lists the species by
\* decreasing count.
species_order(infos) ==
    SortRows(DOMAIN infos,
        {p \in (DOMAIN infos) \X (DOMAIN infos) :
            \/ infos[p[1]].count > infos[p[2]].count
            \/ infos[p[1]].count = infos[p[2]].count /\ StrLess(<<p[1]>>, <<p[2]>>)})

GenerateMaps ==
    /\ script = "loaded"
    /\ script' = "mapped"
    /\ \E resolution \in Resolutions :
         /\ habitat_suitability' =
              maps_until_raise(SCIPY_AVAILABLE, species_data,
                               species_order(species_data), resolution)
         /\ exit' = IF \E sp \in DOMAIN species_data :
                          map_raises(species_data[sp], resolution)
                    THEN "error" ELSE "ok"
    /\ UNCHANGED <<data, out, SCIPY_AVAILABLE, self_data, species_data,
                   ascVars, guiVars, restVars>>

(***************************************************************************)
(* CMEMStrans.py, save_monthly_layer, and the ASCReader of                 *)
(* CMEMS_ascRead&visualization.py.                                         *)
(*                                                                         *)
(* A cell value is an integer number of ValueUnit-ths (1e-5), a coordinate *)
(* an integer number of DegreeUnit-ths of a degree (1e-7), so that the     *)
(* 4 and 6 decimals of the file are a rounding.  A token of the file is    *)
(* its format and its digits: "d" an integer literal, ".4f" and ".6f" a    *)
(* number of 1e-4 and 1e-6, "nan" and "inf" what Python prints for them.   *)
(***************************************************************************)
NODATA == -9999
ValueUnit == 100000
DegreeUnit == 10000000
InfFloat == 2000000000

isnan(v) == v = NaNFloat
isinf(v) == v = InfFloat \/ v = -InfFloat

Reverse(seq) == [i \in 1..Len(seq) |-> seq[Len(seq) + 1 - i]]

\* v / m rounded to the nearest integer
RoundDiv(v, m) ==
    IF v >= 0 THEN (v + m \div 2) \div m ELSE -((m \div 2 - v) \div m)

Token(text, value) == [text |-> text, value |-> value]

\* The cell written with 2 decimals in place of 4.
format_cell_2f(val) ==
    IF val = NODATA * ValueUnit THEN Token("d", NODATA)
    ELSE IF isnan(val) THEN Token("nan", 0)
    ELSE IF isinf(val) THEN Token("inf", IF val > 0 THEN 1 ELSE -1)
    ELSE Token(".4f", RoundDiv(val, 1000) * 100)

\* f"{val:.4f}" if val != -9999 else "-9999"
format_cell(val) ==
    IF val = NODATA * ValueUnit THEN Token("d", NODATA)
    ELSE IF isnan(val) THEN Token("nan", 0)
    ELSE IF isinf(val) THEN Token("inf", IF val > 0 THEN 1 ELSE -1)
    ELSE Token(".4f", RoundDiv(val, 10))

\* f"{x:.6f}" of a coordinate
format_degrees(x) == Token(".6f", RoundDiv(x, 10))

\* np.where(np.isnan(data), -9999, data) only
replace_nan_only(array) ==
    [r \in 1..Len(array) |-> [c \in 1..Len(array[r]) |->
        IF isnan(array[r][c]) THEN NODATA * ValueUnit ELSE array[r][c]]]

\* np.where(np.isnan(data), -9999, data); np.where(np.isinf(data), -9999, data)
replace_invalid(array) ==
    [r \in 1..Len(array) |-> [c \in 1..Len(array[r]) |->
        IF isnan(array[r][c]) \/ isinf(array[r][c])
        THEN NODATA * ValueUnit ELSE array[r][c]]]

SeqMin(seq) == SetMin({seq[i] : i \in 1..Len(seq)})

\* cellsize = abs(lons[1] - lons[0]) if len(lons) > 1 else 0.083
DefaultCellsize == 830000
cellsize_of(lons) ==
    IF Len(lons) > 1 THEN Abs(lons[2] - lons[1]) ELSE DefaultCellsize

\* The latitudes ascend: the rows are turned to run from north to south.
flips(lats) == Len(lats) > 1 /\ lats[1] < lats[Len(lats)]

\* The file save_monthly_layer writes: its 6 header lines and its data rows.
save_monthly_layer(array, lons, lats) ==
    LET clean == replace_invalid(array)
        rows == IF flips(lats) THEN Reverse(clean) ELSE clean
    IN  [exists |-> TRUE,
         header |-> << <<"ncols", Token("d", Len(lons))>>,
                       <<"nrows", Token("d", Len(lats))>>,
                       <<"xllcorner", format_degrees(SeqMin(lons))>>,
                       <<"yllcorner", format_degrees(SeqMin(lats))>>,
                       <<"cellsize", format_degrees(cellsize_of(lons))>>,
                       <<"NODATA_value", Token("d", NODATA)>> >>,
         rows |-> [r \in 1..Len(rows) |-> [c \in 1..Len(rows[r]) |->
                        format_cell(rows[r][c])]]]

(* ASCReader.read_asc_file *)
header_lines == 6

\* parts[0].lower()
lower(key) == IF key = "NODATA_value" THEN "nodata_value" ELSE key

\* float(parts[1]) if '.' in parts[1] else int(parts[1]): a number with
\* decimals is taken in 1e-7, an integer as it is
header_value(tok) ==
    IF tok.text = ".6f" THEN tok.value * 10
    ELSE IF tok.text = ".4f" THEN tok.value * 1000
    ELSE tok.value

\* float(x) of a token of a data row
float_cell(tok) ==
    CASE tok.text = ".4f" -> tok.value * 10
      [] tok.text = ".6f" -> tok.value \div 10
      [] tok.text = "d" -> tok.value * ValueUnit
      [] tok.text = "nan" -> NaNFloat
      [] tok.text = "inf" -> tok.value * InfFloat

\* lines[i] of a file with fewer than 6 lines raises IndexError.
read_raises(file) == ~file.exists \/ Len(file.header) < header_lines

read_header(file) ==
    [key \in {lower(file.header[i][1]) : i \in 1..header_lines} |->
        header_value(file.header[
            SetMax({i \in 1..header_lines : lower(file.header[i][1]) = key})][2])]

\* nodata_value = self.header.get('nodata_value', -9999)
nodata_value(hdr) ==
    IF "nodata_value" \in DOMAIN hdr THEN hdr["nodata_value"] ELSE NODATA

\* self.data = np.array(data), without the NODATA cells made NaN
read_data_unmasked(file, hdr) ==
    [r \in 1..Len(file.rows) |-> [c \in 1..Len(file.rows[r]) |->
        float_cell(file.rows[r][c])]]

\* self.data = np.array(data); self.data[self.data == nodata_value] = np.nan
read_data(file, hdr) ==
    [r \in 1..Len(file.rows) |-> [c \in 1..Len(file.rows[r]) |->
        IF float_cell(file.rows[r][c]) = nodata_value(hdr) * ValueUnit
        THEN NaNFloat ELSE float_cell(file.rows[r][c])]]

(* ASCReader.get_coordinates *)
get_coordinates(hdr) ==
    [lons |-> arange(hdr["xllcorner"],
                     hdr["xllcorner"] + hdr["ncols"] * hdr["cellsize"], hdr["cellsize"]),
     lats |-> arange(hdr["yllcorner"],
                     hdr["yllcorner"] + hdr["nrows"] * hdr["cellsize"], hdr["cellsize"])]

\* MaxEntVisualizer.visualize: np.meshgrid(lons, lats[::-1]), the longitude and
\* the latitude drawn for row r, column c of the data
lon_mesh(hdr, r, c) == get_coordinates(hdr).lons[c]
lat_mesh(hdr, r, c) == Reverse(get_coordinates(hdr).lats)[r]

(* MaxEntVisualizer._display_file_info *)
valid_cells(array) ==
    {p \in UNION {{<<r, c>> : c \in 1..Len(array[r])} : r \in 1..Len(array)} :
        ~isnan(array[p[1]][p[2]])}

\* np.nanmin(data), np.nanmax(data), np.sum(~np.isnan(data)); the minimum and
\* the maximum of a file without a valid cell are NaN
display_file_info(array) ==
    LET values == {array[p[1]][p[2]] : p \in valid_cells(array)}
    IN  [nanmin |-> IF values = {} THEN NaNFloat ELSE SetMin(values),
         nanmax |-> IF values = {} THEN NaNFloat ELSE SetMax(values),
         valid_pixels |-> Cardinality(valid_cells(array))]

(***************************************************************************)
(* The layers that are saved, the other files that are read, the actions.  *)
(***************************************************************************)
MaxDim == 2

\* An ordinary value of the cell in row r, column c (1.12346 for r = c = 1).
OrdinaryValue(r, c) == r * ValueUnit + c * 12345 + 1

\* The values of a cell that is not ordinary: missing, infinite, 0, and the
\* numbers -9999.0 and -9999.00001.
SpecialValues ==
    {NaNFloat, InfFloat, -InfFloat, 0, NODATA * ValueUnit, NODATA * ValueUnit - 1}

\* The arrays of nrows x ncols cells with at most one cell that is special.
Arrays(nrows, ncols) ==
    {[r \in 1..nrows |-> [c \in 1..ncols |-> OrdinaryValue(r, c)]]}
    \cup {[r \in 1..nrows |-> [c \in 1..ncols |->
              IF <<r, c>> = p THEN v ELSE OrdinaryValue(r, c)]] :
            p \in (1..nrows) \X (1..ncols), v \in SpecialValues}

\* Steps of 0.25 and 0.5 degrees.
GridSteps == {DegreeUnit \div 4, DegreeUnit \div 2}

\* Latitudes from -70 degrees on, ascending or descending.
LatVectors(n) ==
    {[i \in 1..n |-> -70 * DegreeUnit + (i - 1) * step] : step \in GridSteps}
    \cup {[i \in 1..n |-> -70 * DegreeUnit + (n - i) * step] : step \in GridSteps}

\* Longitudes from 17 degrees on, ascending.
LonVectors(n) ==
    {[i \in 1..n |-> 17 * DegreeUnit + (i - 1) * step] : step \in GridSteps}

NoLayer == [array |-> <<>>, lons |-> <<>>, lats |-> <<>>]
NoFile == [exists |-> FALSE, header |-> <<>>, rows |-> <<>>]

\* Files that the converter did not write: a row of integers under a header
\* with the NODATA_value -9999 or 0, and an empty file.
OtherFiles ==
    {[exists |-> TRUE,
      header |-> << <<"ncols", Token("d", 2)>>, <<"nrows", Token("d", 1)>>,
                    <<"xllcorner", format_degrees(17 * DegreeUnit)>>,
                    <<"yllcorner", format_degrees(-70 * DegreeUnit)>>,
                    <<"cellsize", format_degrees(DegreeUnit \div 4)>>,
                    <<"NODATA_value", Token("d", nodata)>> >>,
      rows |-> << <<Token("d", a), Token("d", b)>> >>] :
        nodata \in {NODATA, 0}, a \in {NODATA, 0, 5}, b \in {NODATA, 0, 5}}
    \cup {[exists |-> TRUE, header |-> <<>>, rows |-> <<>>]}

SaveMonthlyLayer ==
    /\ ~disk.exists
    /\ \E nrows \in 1..MaxDim, ncols \in 1..MaxDim :
         \E array \in Arrays(nrows, ncols), lons \in LonVectors(ncols),
            lats \in LatVectors(nrows) :
              /\ layer' = [array |-> array, lons |-> lons, lats |-> lats]
              /\ disk' = save_monthly_layer(array, lons, lats)
    /\ UNCHANGED <<header, reader_data, read_result, tabVars, habVars, restVars, guiVars>>

OtherFile ==
    /\ ~disk.exists
    /\ disk' \in OtherFiles
    /\ UNCHANGED <<layer, header, reader_data, read_result, tabVars, habVars, restVars, guiVars>>

\* asc_reader.read_asc_file(filepath): an exception leaves the header emptied
\* and the data as they were.
ReadAscFile ==
    /\ disk.exists
    /\ read_result = "none"
    /\ IF read_raises(disk)
       THEN /\ header' = <<>>
            /\ read_result' = "failed"
            /\ UNCHANGED reader_data
       ELSE /\ header' = read_header(disk)
            /\ reader_data' = read_data(disk, read_header(disk))
            /\ read_result' = "ok"
    /\ UNCHANGED <<layer, disk, tabVars, habVars, restVars, guiVars>>

\* The reader and the converter before any call.
AscInit ==
    /\ layer = NoLayer
    /\ disk = NoFile
    /\ header = <<>>
    /\ reader_data = <<>>
    /\ read_result = "none"

(***************************************************************************)
(* CMEMS_ascRead&visualization.py, MaxEntVisualizer: the event loop of Tk  *)
(* and the threads that visualize_threaded starts.  A handler of the event *)
(* loop runs to its end before the next one starts; a thread runs between  *)
(* any two steps of it.                                                    *)
(***************************************************************************)
MaxWorkers == 2

\* The files the user can select: two layers of different shapes and an
\* empty file.
GuiDisk ==
    [a |-> save_monthly_layer(
              << <<OrdinaryValue(1, 1), NaNFloat>> >>,
              <<17 * DegreeUnit, 17 * DegreeUnit + DegreeUnit \div 4>>,
              <<-70 * DegreeUnit>>),
     b |-> save_monthly_layer(
              << <<OrdinaryValue(1, 1)>>, <<OrdinaryValue(2, 1)>> >>,
              <<17 * DegreeUnit>>,
              <<-70 * DegreeUnit, -70 * DegreeUnit + DegreeUnit \div 4>>),
     bad |-> [exists |-> TRUE, header |-> <<>>, rows |-> <<>>]]

NoWorkerFile == "none"

\* A thread at the start of visualize.
NewWorker == [pc |-> "coords", header |-> <<>>, data |-> <<>>, file |-> NoWorkerFile]

\* select_file, up to the call of read_asc_file: the dialog returned a name.
SelectFile ==
    /\ gui_pc = "idle"
    /\ \E filename \in DOMAIN GuiDisk : current_file' = filename
    /\ gui_pc' = "read_header"
    /\ UNCHANGED <<visualize_button, workers, callbacks, progress, completed, tabVars, habVars, restVars, ascVars>>

\* read_asc_file within select_file, the header: a file that cannot be read
\* ends select_file with the error message.
SelectFileReadHeader ==
    /\ gui_pc = "read_header"
    /\ IF read_raises(GuiDisk[current_file])
       THEN /\ header' = <<>>
            /\ read_result' = "failed"
            /\ gui_pc' = "idle"
       ELSE /\ header' = read_header(GuiDisk[current_file])
            /\ gui_pc' = "read_data"
            /\ UNCHANGED read_result
    /\ UNCHANGED <<layer, disk, reader_data, current_file, visualize_button,
                   workers, callbacks, progress, completed, tabVars, habVars, restVars>>

\* read_asc_file within select_file, the data, and the rest of select_file:
\* _display_file_info and visualize_button.config(state=tk.NORMAL).
SelectFileReadData ==
    /\ gui_pc = "read_data"
    /\ reader_data' = read_data(GuiDisk[current_file], header)
    /\ read_result' = "ok"
    /\ visualize_button' = "normal"
    /\ gui_pc' = "idle"
    /\ UNCHANGED <<layer, disk, header, current_file, workers, callbacks,
                   progress, completed, tabVars, habVars, restVars>>

\* visualize_threaded: the button is clicked.
VisualizeThreaded ==
    /\ gui_pc = "idle"
    /\ visualize_button = "normal"
    /\ Len(workers) < MaxWorkers
    /\ progress' = "running"
    /\ visualize_button' = "disabled"
    /\ workers' = Append(workers, NewWorker)
    /\ UNCHANGED <<current_file, gui_pc, callbacks, completed, tabVars, habVars, restVars, ascVars>>

\* The thread ends without a callback.
Finish_silent(w, callback) ==
    /\ workers' = [workers EXCEPT ![w].pc = "done"]
    /\ UNCHANGED callbacks

\* self.root.after(0, ...): the callback is queued and the thread ends.
Finish(w, callback) ==
    /\ workers' = [workers EXCEPT ![w].pc = "done"]
    /\ callbacks' = Append(callbacks, callback)

\* visualize: lons, lats = self.asc_reader.get_coordinates(); of an empty
\* header they are None, and np.meshgrid raises.
WorkerCoordinates(w) ==
    /\ workers[w].pc = "coords"
    /\ IF header = <<>>
       THEN Finish(w, "error")
       ELSE /\ workers' = [workers EXCEPT ![w].pc = "data", ![w].header = header]
            /\ UNCHANGED callbacks
    /\ UNCHANGED <<current_file, visualize_button, gui_pc, progress, completed, tabVars, habVars, restVars, ascVars>>

\* visualize: data = self.asc_reader.data
WorkerData(w) ==
    /\ workers[w].pc = "data"
    /\ workers' = [workers EXCEPT ![w].pc = "draw", ![w].data = reader_data]
    /\ UNCHANGED <<current_file, visualize_button, gui_pc, callbacks,
                   progress, completed, tabVars, habVars, restVars, ascVars>>

\* The shape of the mesh is that of the data.
shapes_agree(hdr, array) ==
    /\ Len(array) = hdr["nrows"]
    /\ \A r \in 1..Len(array) : Len(array[r]) = hdr["ncols"]

\* visualize: ax.contourf(lon_mesh, lat_mesh, data, ...) raises when the
\* shapes differ.
WorkerDraw(w) ==
    /\ workers[w].pc = "draw"
    /\ IF shapes_agree(workers[w].header, workers[w].data)
       THEN /\ workers' = [workers EXCEPT ![w].pc = "title"]
            /\ UNCHANGED callbacks
       ELSE Finish(w, "error")
    /\ UNCHANGED <<current_file, visualize_button, gui_pc, progress, completed, tabVars, habVars, restVars, ascVars>>

\* visualize: filename = os.path.basename(self.current_file), the figure is
\* saved under this name, and the completion is queued.
WorkerTitle(w) ==
    /\ workers[w].pc = "title"
    /\ workers' = [workers EXCEPT ![w].pc = "done", ![w].file = current_file]
    /\ callbacks' = Append(callbacks, "complete")
    /\ UNCHANGED <<current_file, visualize_button, gui_pc, progress, completed, tabVars, habVars, restVars, ascVars>>

Worker ==
    \E w \in 1..Len(workers) :
        WorkerCoordinates(w) \/ WorkerData(w) \/ WorkerDraw(w) \/ WorkerTitle(w)

\* _visualization_complete and _visualization_error, run by the event loop
VisualizationCallback ==
    /\ gui_pc = "idle"
    /\ callbacks # <<>>
    /\ callbacks' = Tail(callbacks)
    /\ completed' = Append(completed, Head(callbacks))
    /\ progress' = "stopped"
    /\ visualize_button' = "normal"
    /\ UNCHANGED <<current_file, gui_pc, workers, tabVars, habVars, restVars, ascVars>>

\* MaxEntVisualizer.__init__
GuiInit ==
    /\ current_file = NoWorkerFile
    /\ visualize_button = "disabled"
    /\ gui_pc = "idle"
    /\ workers = <<>>
    /\ callbacks = <<>>
    /\ progress = "stopped"
    /\ completed = <<>>

(***************************************************************************)
(* remixed-64e915ca.py: the MaxEnt data-preparation GUI (MaxEntGUI).       *)
(*                                                                         *)
(* A DataFrame is a record [none, columns, rows]: `none` tells Python's    *)
(* None from a frame, `columns` is the sequence of the environment columns *)
(* (Species, LONG and LAT are columns of every file of the model), and a   *)
(* row is [Species, LONG, LAT, env], env a function of the columns.  A     *)
(* species name is the sequence of its characters.                         *)
(*                                                                         *)
(* load_data, process_data and export_files each call self.root.update()   *)
(* after their first checks: update() dispatches the pending events, so a  *)
(* click that is waiting then runs its whole handler inside the suspended  *)
(* one.  `stack` holds the suspended handlers, innermost last, each with   *)
(* the locals it computed before update().                                 *)
(***************************************************************************)
MaxDepth == 2

None == [none |-> TRUE, columns |-> <<>>, rows |-> <<>>]
DataFrame(columns, rows) == [none |-> FALSE, columns |-> columns, rows |-> rows]

PrepRow(species, long, lat, env) ==
    [Species |-> species, LONG |-> long, LAT |-> lat, env |-> env]

\* The files the user can pick with browse_file: two tables with different
\* species and different columns, and a path pd.read_csv cannot read.
CsvFiles ==
    [ a |-> DataFrame(<<"TempW", "Ice density">>,
              << PrepRow(<<"A", " ", "b">>, 1, 1, ("TempW" :> 10 @@ "Ice density" :> 5)),
                 PrepRow(<<"A", " ", "b">>, 1, 1, ("TempW" :> 10 @@ "Ice density" :> 5)),
                 PrepRow(<<"A", " ", "b">>, 2, 1, ("TempW" :> 20 @@ "Ice density" :> NaNFloat)),
                 PrepRow(<<"A", "_", "b">>, 1, 1, ("TempW" :> 10 @@ "Ice density" :> 5)) >>),
      b |-> DataFrame(<<"TempW">>,
              << PrepRow(<<"C", ".">>, 3, 3, ("TempW" :> 30)) >>),
      missing |-> None ]

read_csv_raises(path) == CsvFiles[path].none

\* self.data.rename(columns={'Ice density': 'Ice_density'}, inplace=True)
rename(frame) ==
    LET old(var) == IF var = "Ice_density" /\ "Ice density" \in Range(frame.columns)
                    THEN "Ice density" ELSE var
        columns == [i \in DOMAIN frame.columns |->
                       IF frame.columns[i] = "Ice density" THEN "Ice_density"
                       ELSE frame.columns[i]]
    IN  DataFrame(columns,
            [i \in DOMAIN frame.rows |->
                [frame.rows[i] EXCEPT !.env =
                    [var \in Range(columns) |-> frame.rows[i].env[old(var)]]]])

\* self.data['Species'].value_counts().index.tolist(): the species by
\* descending count, equal counts in the order of their first rows.
value_count(frame, species) ==
    Cardinality({i \in DOMAIN frame.rows : frame.rows[i].Species = species})

first_row(frame, species) ==
    SetMin({i \in DOMAIN frame.rows : frame.rows[i].Species = species})

value_counts(frame) ==
    LET all == {frame.rows[i].Species : i \in DOMAIN frame.rows}
        before(s, t) ==
            \/ value_count(frame, s) > value_count(frame, t)
            \/ /\ value_count(frame, s) = value_count(frame, t)
               /\ first_row(frame, s) < first_row(frame, t)
        rank(s) == Cardinality({t \in all : before(t, s)}) + 1
    IN  [i \in 1..Cardinality(all) |-> CHOOSE s \in all : rank(s) = i]

\* self.processed_data['Species'].unique(): the species in the order of
\* their first rows.
unique(frame) ==
    LET all == {frame.rows[i].Species : i \in DOMAIN frame.rows}
        rank(s) == Cardinality({t \in all : first_row(frame, t) < first_row(frame, s)}) + 1
    IN  [i \in 1..Cardinality(all) |-> CHOOSE s \in all : rank(s) = i]

possible_env_vars ==
    <<"TempA", "TempW", "Salinity", "O2Con", "O2", "Turbidity", "CHL", "CDOM",
      "pH", "WindSpeed2M", "Humidity", "Ice_density", "Detph">>

recommended == {"TempW", "Salinity", "CHL", "Ice_density", "Detph"}

\* refresh_env_vars: one check box per known column of self.data, ticked
\* when the variable is a recommended one.
refresh_env_vars(frame) ==
    [var \in Range(possible_env_vars) \cap Range(frame.columns) |->
        var \in recommended]

\* [var for var, bool_var in self.env_vars.items() if bool_var.get()]: the
\* dictionary keeps the order in which refresh_env_vars filled it.
IsTicked(boxes, var) == var \in DOMAIN boxes /\ boxes[var]

ticked_env_vars(boxes) ==
    LET ticked(var) == IsTicked(boxes, var)
    IN  SelectSeq(possible_env_vars, ticked)

\* refresh_species_list: the list box is emptied (and with it the
\* selection) and filled from value_counts.
refresh_species_list(frame) ==
    [items |-> value_counts(frame), selection |-> {}]

\* select_recommended_species: the species with 20 records or more.
recommended_species(frame) ==
    {i \in DOMAIN value_counts(frame) :
        value_count(frame, value_counts(frame)[i]) >= 20}

\* self.data[self.data['Species'].isin(selected_species)][columns_to_keep]
keep_columns(frame, selected_species, columns) ==
    LET kept(row) == row.Species \in Range(selected_species)
        project(row) == [row EXCEPT !.env = [var \in Range(columns) |-> row.env[var]]]
        rows == SelectSeq(frame.rows, kept)
    IN  DataFrame(columns, [i \in DOMAIN rows |-> project(rows[i])])

RECURSIVE drop_duplicate_rows(_)
drop_duplicate_rows(rows) ==
    IF rows = <<>> THEN <<>>
    ELSE LET n == Len(rows)
             front == drop_duplicate_rows(SubSeq(rows, 1, n - 1))
         IN  IF rows[n] \in Range(front) THEN front ELSE Append(front, rows[n])

drop_duplicates(frame) == [frame EXCEPT !.rows = drop_duplicate_rows(frame.rows)]

dropna(frame) ==
    LET complete(row) == \A var \in DOMAIN row.env : ~isnan(row.env[var])
    IN  [frame EXCEPT !.rows = SelectSeq(frame.rows, complete)]

\* "".join(c for c in species if c.isalnum() or c in (' ', '-', '_'))
\*   .rstrip().replace(' ', '_')
isalnum(char) == char \in Digits \cup {"A", "B", "C", "a", "b", "c"}

RECURSIVE rstrip(_)
rstrip(text) ==
    IF text # <<>> /\ text[Len(text)] = " "
    THEN rstrip(SubSeq(text, 1, Len(text) - 1))
    ELSE text

safe_name(species) ==
    LET kept(c) == isalnum(c) \/ c \in {" ", "-", "_"}
        stripped == rstrip(SelectSeq(species, kept))
    IN  [i \in DOMAIN stripped |-> IF stripped[i] = " " THEN "_" ELSE stripped[i]]

File(name, columns, rows) == [name |-> name, columns |-> columns, rows |-> rows]

species_rows(frame, species) ==
    LET of(row) == row.Species = species
    IN  SelectSeq(frame.rows, of)

\* The two files export_files writes for one species.
species_files(frame, species, columns) ==
    LET rows == species_rows(frame, species)
    IN  << File(<<"species_occurrence", safe_name(species), "_swd.csv">>, columns,
                [i \in DOMAIN rows |->
                    [rows[i] EXCEPT !.env = [var \in Range(columns) |-> rows[i].env[var]]]]),
           File(<<"species_occurrence", safe_name(species), "_coords.csv">>, <<>>,
                [i \in DOMAIN rows |-> [rows[i] EXCEPT !.env = <<>>]]) >>

RECURSIVE all_species_files(_, _, _)
all_species_files(frame, species_seq, columns) ==
    IF species_seq = <<>> THEN <<>>
    ELSE species_files(frame, Head(species_seq), columns)
         \o all_species_files(frame, Tail(species_seq), columns)

\* The seven files export_files writes after the species files.
common_files(columns) ==
    << File(<<"environmental_layers", <<>>, "background_swd.csv">>, columns, <<>>),
       File(<<"environmental_layers", <<>>, "environmental_data.csv">>, columns, <<>>),
       File(<<"environmental_layers", <<>>, "layers_info.txt">>, columns, <<>>),
       File(<<"background_points", <<>>, "background_points.csv">>, columns, <<>>),
       File(<<"background_points", <<>>, "background_coords_only.csv">>, <<>>, <<>>),
       File(<<"", <<>>, "README_MaxEnt.txt">>, <<>>, <<>>),
       File(<<"", <<>>, "data_summary.txt">>, columns, <<>>) >>

\* exported_files, with what each of the files holds.
exported_files(frame, columns) ==
    all_species_files(frame, unique(frame), columns) \o common_files(columns)

\* species_data[env_var] and self.processed_data[[...] + selected_env_vars]
\* raise KeyError for a column the frame does not have.
export_raises(frame, columns) == ~(Range(columns) \subseteq Range(frame.columns))

Frame(op, selected_species, selected_env_vars) ==
    [op |-> op, selected_species |-> selected_species,
     selected_env_vars |-> selected_env_vars]

Suspended(op) == stack # <<>> /\ stack[Len(stack)].op = op

Pop == SubSeq(stack, 1, Len(stack) - 1)

\* browse_file: the dialog is closed with a file name.
BrowseFile ==
    /\ \E path \in DOMAIN CsvFiles : file_path' = path
    /\ UNCHANGED <<maxent_data, processed_data, gui_env_vars, species_listbox,
                   remove_duplicates, remove_na, stack, done>>
    /\ exported' = <<>>
    /\ UNCHANGED <<baseVars, convVars, procVars>>

\* load_data up to self.root.update().
LoadData ==
    /\ Len(stack) < MaxDepth
    /\ IF file_path = ""
       THEN UNCHANGED stack
       ELSE /\ stack' = Append(stack, Frame("load_data", <<>>, <<>>))
    /\ UNCHANGED <<file_path, maxent_data, processed_data, gui_env_vars,
                   species_listbox, remove_duplicates, remove_na, done>>
    /\ exported' = <<>>
    /\ UNCHANGED <<baseVars, convVars, procVars>>

\* load_data after self.root.update().
LoadDataResume ==
    /\ Suspended("load_data")
    /\ stack' = Pop
    /\ IF read_csv_raises(file_path)
       THEN /\ UNCHANGED <<maxent_data, gui_env_vars, species_listbox, done>>
       ELSE /\ maxent_data' = rename(CsvFiles[file_path])
            /\ species_listbox' = refresh_species_list(maxent_data')
            /\ gui_env_vars' = refresh_env_vars(maxent_data')
            /\ done' = done \cup {"load_data"}
    /\ UNCHANGED <<file_path, processed_data, remove_duplicates, remove_na>>
    /\ exported' = <<>>
    /\ UNCHANGED <<baseVars, convVars, procVars>>

\* A click in the species list (selectmode MULTIPLE).
ToggleSpecies ==
    /\ \E i \in DOMAIN species_listbox.items :
         species_listbox' =
            [species_listbox EXCEPT !.selection =
                IF i \in @ THEN @ \ {i} ELSE @ \cup {i}]
    /\ UNCHANGED <<file_path, maxent_data, processed_data, gui_env_vars,
                   remove_duplicates, remove_na, stack, done>>
    /\ exported' = <<>>
    /\ UNCHANGED <<baseVars, convVars, procVars>>

\* The buttons of the species tab: refresh_species_list and
\* select_recommended_species.
RefreshSpeciesList ==
    /\ ~maxent_data.none
    /\ \/ species_listbox' = refresh_species_list(maxent_data)
       \/ species_listbox' =
            [species_listbox EXCEPT !.selection = recommended_species(maxent_data)]
    /\ UNCHANGED <<file_path, maxent_data, processed_data, gui_env_vars,
                   remove_duplicates, remove_na, stack, done>>
    /\ exported' = <<>>
    /\ UNCHANGED <<baseVars, convVars, procVars>>

\* A click on the check box of an environment variable.
ToggleEnvVar ==
    /\ \E var \in DOMAIN gui_env_vars :
         gui_env_vars' = [gui_env_vars EXCEPT ![var] = ~@]
    /\ UNCHANGED <<file_path, maxent_data, processed_data, species_listbox,
                   remove_duplicates, remove_na, stack, done>>
    /\ exported' = <<>>
    /\ UNCHANGED <<baseVars, convVars, procVars>>

\* The refresh button of the environment tab.
RefreshEnvVars ==
    /\ ~maxent_data.none
    /\ gui_env_vars' = refresh_env_vars(maxent_data)
    /\ UNCHANGED <<file_path, maxent_data, processed_data, species_listbox,
                   remove_duplicates, remove_na, stack, done>>
    /\ exported' = <<>>
    /\ UNCHANGED <<baseVars, convVars, procVars>>

\* process_data up to self.root.update(): the three warnings, the species
\* of the selected indices (IndexError for an index the list of the data
\* does not have) and the ticked variables.
ProcessData ==
    /\ Len(stack) < MaxDepth
    /\ LET species_list == value_counts(maxent_data)
           selected_indices == species_listbox.selection
           chosen(i) == i \in selected_indices
           indices == SelectSeq([i \in 1..Len(species_listbox.items) |-> i], chosen)
           selected_env_vars == ticked_env_vars(gui_env_vars)
       IN  IF maxent_data.none \/ selected_indices = {}
           THEN UNCHANGED stack
           ELSE IF \E i \in selected_indices : i > Len(species_list)
           THEN UNCHANGED stack
           ELSE IF selected_env_vars = <<>>
           THEN UNCHANGED stack
           ELSE /\ stack' = Append(stack,
                      Frame("process_data",
                            [k \in DOMAIN indices |-> species_list[indices[k]]],
                            selected_env_vars))
    /\ UNCHANGED <<file_path, maxent_data, processed_data, gui_env_vars,
                   species_listbox, remove_duplicates, remove_na, done>>
    /\ exported' = <<>>
    /\ UNCHANGED <<baseVars, convVars, procVars>>

\* process_data after self.root.update(): self.processed_data is assigned
\* before the retention rate final_count / initial_count is formatted.
ProcessDataResume ==
    /\ Suspended("process_data")
    /\ stack' = Pop
    /\ LET frame == stack[Len(stack)]
           columns_to_keep == frame.selected_env_vars
       IN  IF ~(Range(columns_to_keep) \subseteq Range(maxent_data.columns))
           THEN /\ UNCHANGED <<processed_data, done>>
           ELSE LET filtered == keep_columns(maxent_data, frame.selected_species,
                                             columns_to_keep)
                    initial_count == Len(filtered.rows)
                    deduplicated == IF remove_duplicates THEN drop_duplicates(filtered)
                                    ELSE filtered
                    cleaned == IF remove_na THEN dropna(deduplicated)
                               ELSE deduplicated
                IN  /\ processed_data' = cleaned
                    /\ IF initial_count = 0
                       THEN /\ UNCHANGED done
                       ELSE /\ done' = done \cup {"process_data"}
    /\ UNCHANGED <<file_path, maxent_data, gui_env_vars, species_listbox,
                   remove_duplicates, remove_na>>
    /\ exported' = <<>>
    /\ UNCHANGED <<baseVars, convVars, procVars>>

\* export_files up to self.root.update().
ExportFiles ==
    /\ Len(stack) < MaxDepth
    /\ IF processed_data.none
       THEN UNCHANGED stack
       ELSE /\ stack' = Append(stack, Frame("export_files", <<>>, <<>>))
    /\ UNCHANGED <<file_path, maxent_data, processed_data, gui_env_vars,
                   species_listbox, remove_duplicates, remove_na, done>>
    /\ exported' = <<>>
    /\ UNCHANGED <<baseVars, convVars, procVars>>

\* export_files after self.root.update(): the ticked variables are read
\* from the check boxes, and `exported` is what this call wrote.
ExportFilesResume ==
    /\ Suspended("export_files")
    /\ stack' = Pop
    /\ LET selected_env_vars == ticked_env_vars(gui_env_vars)
       IN  IF export_raises(processed_data, selected_env_vars)
           THEN /\ exported' = <<>>
                /\ UNCHANGED done
           ELSE /\ exported' = exported_files(processed_data, selected_env_vars)
                /\ UNCHANGED done
    /\ UNCHANGED <<file_path, maxent_data, processed_data, gui_env_vars,
                   species_listbox, remove_duplicates, remove_na>>
    /\ UNCHANGED <<baseVars, convVars, procVars>>

\* MaxEntGUI.__init__ and create_interface.
PrepInit ==
    /\ file_path = ""
    /\ maxent_data = None
    /\ processed_data = None
    /\ gui_env_vars = <<>>
    /\ species_listbox = [items |-> <<>>, selection |-> {}]
    /\ remove_duplicates = TRUE
    /\ remove_na = TRUE
    /\ exported = <<>>
    /\ stack = <<>>
    /\ done = {}

(***************************************************************************)
(* CMEMStrans.py: convert_all_monthly_layers (MonthlyLayersConverter).     *)
(*                                                                         *)
(* A dataset is a record: whether nc.Dataset opens it, its time variable   *)
(* (its name, "" for none, its units as the sequence of their words, and   *)
(* its values), its data variables and whether it has longitude and        *)
(* latitude variables.  A units attribute that is absent is has_units      *)
(* FALSE.                                                                  *)
(***************************************************************************)
MaxSteps == 2

TimeVar(name, has_units, units, values) ==
    [name |-> name, has_units |-> has_units, units |-> units, values |-> values]

Dataset(opens, time, variables, lonlat) ==
    [opens |-> opens, time |-> time, variables |-> variables, lonlat |-> lonlat]

NoDataset == Dataset(FALSE, TimeVar("", FALSE, <<>>, <<>>), <<>>, FALSE)

\* The units of the time variable: parseable, with a reference date that
\* strptime rejects, with no date after 'since', and without 'since'.
UnitsTexts ==
    { <<"days", "since", "1950-01-01">>, <<"hours", "since", "1950-01-01">>,
      <<"days", "since", "start">>, <<"days", "since">>, <<"days">> }

Datasets ==
    { Dataset(TRUE, TimeVar(name, has_units, units, values), variables, lonlat) :
        name \in {"time", ""},
        has_units \in BOOLEAN,
        units \in UnitsTexts,
        values \in UNION {[1..n -> {15, 45, NaNFloat}] : n \in 0..MaxSteps},
        variables \in {<<>>, <<"thetao">>, <<"thetao", "so">>},
        lonlat \in BOOLEAN }
    \cup {NoDataset}

\* datetime.strptime(word, '%Y-%m-%d') raises for a word that is no date.
strptime_raises(word) == word \notin {"1950-01-01"}

\* The position of 'since' in the units; 0 when the word is not there.
since_at(units) ==
    IF "since" \in Range(units)
    THEN SetMin({i \in DOMAIN units : units[i] = "since"})
    ELSE 0

NoDate == [ref |-> "None", unit |-> "None", value |-> 0]

TimeEntry(index, datetime) == [index |-> index, datetime |-> datetime]

\* The fallback of the except branch: range(len(time_var)).
simple_index(time) ==
    [i \in DOMAIN time.values |-> TimeEntry(i - 1, NoDate)]

\* The time unit of the timedelta: days, hours or seconds, days otherwise.
timedelta_unit(time_unit) ==
    IF "days" \in Range(time_unit) THEN "days"
    ELSE IF "hours" \in Range(time_unit) THEN "hours"
    ELSE IF "seconds" \in Range(time_unit) THEN "seconds"
    ELSE "days"

\* The try block raises when nothing follows 'since', when the reference
\* date does not parse, when timedelta gets a NaN, and at time_info[0]
\* when there is no time step.
parse_raises(time) ==
    LET at == since_at(time.units)
    IN  \/ at = Len(time.units)
        \/ strptime_raises(time.units[at + 1])
        \/ \E i \in DOMAIN time.values : isnan(time.values[i])
        \/ time.values = <<>>

\* analyze_time_dimension: self.time_info afterwards (it is [] before).
analyze_time_dimension(dataset) ==
    LET time == dataset.time
        at == since_at(time.units)
    IN  IF time.name = "" THEN <<>>
        ELSE IF ~time.has_units THEN <<>>
        ELSE IF at = 0 THEN <<>>
        ELSE IF parse_raises(time) THEN simple_index(time)
        ELSE [i \in DOMAIN time.values |->
                 TimeEntry(i - 1,
                     [ref |-> time.units[at + 1],
                      unit |-> timedelta_unit(SubSeq(time.units, 1, at - 1)),
                      value |-> time.values[i]])]

\* The operations of the loops of convert_all_monthly_layers with
\* depth_layers='surface': one per variable and entry of time_info.
total_operations(dataset, entries) == Len(dataset.variables) * Len(entries)

\* get_monthly_data returns no data without longitude and latitude.
successful_operations(dataset, entries) ==
    IF dataset.lonlat THEN total_operations(dataset, entries) ELSE 0

Report(status, total_ops, successful_ops, rate) ==
    [status |-> status, total_ops |-> total_ops,
     successful_ops |-> successful_ops, rate |-> rate]

NoReport == Report("none", 0, 0, 0)

\* generate_monthly_report: successful_ops / total_ops * 100 with one
\* decimal (in tenths of a percent); ZeroDivisionError when total_ops is 0.
generate_monthly_report(total_ops, successful_ops) ==
    IF total_ops = 0 THEN Report("raised", total_ops, successful_ops, 0)
    ELSE Report("written", total_ops, successful_ops,
                RoundDiv(successful_ops * 1000, total_ops))

\* convert_all_monthly_layers on one dataset; it returns [] before the
\* report when open_dataset fails.
ConvertAllMonthlyLayers ==
    /\ report = NoReport
    /\ \E dataset \in Datasets :
         /\ ds' = dataset
         /\ IF ~dataset.opens
            THEN /\ time_info' = <<>>
                 /\ report' = Report("not opened", 0, 0, 0)
            ELSE /\ time_info' = analyze_time_dimension(dataset)
                 /\ report' = generate_monthly_report(
                                  total_operations(dataset, time_info'),
                                  successful_operations(dataset, time_info'))
    /\ UNCHANGED <<baseVars, prepVars, procVars>>

\* MonthlyLayersConverter.__init__
ConvInit ==
    /\ ds = NoDataset
    /\ time_info = <<>>
    /\ report = NoReport

(***************************************************************************)
(* maxent_python_processor.py: analyze_environment and                     *)
(* prepare_environmental_layers (MaxEntDataProcessor).                     *)
(*                                                                         *)
(* The table is a bag of rows with the columns TempW, Salinity and pH; the *)
(* ten other environment columns of the file are empty (all NaN), so that  *)
(* their correlations are NaN.                                             *)
(***************************************************************************)
MaxProcRows == 3

ProcRow(temp, sal, ph) == [TempW |-> temp, Salinity |-> sal, pH |-> ph]

ProcRows ==
    { ProcRow(temp, sal, ph) :
        temp \in {0, 1, 2}, sal \in {0, 1, 2, NaNFloat}, ph \in {0, 2} }

proc_env_columns ==
    <<"TempA", "TempW", "Salinity", "O2Con", "O2", "Turbidity", "CHL", "CDOM",
      "pH", "WindSpeed2M", "Humidity", "Ice_density", "Detph">>

MeasuredColumns == {"TempW", "Salinity", "pH"}

\* The rows of the table in which neither of the two columns is NaN (corr
\* uses the pairwise-complete rows).
pairwise_complete(table, var1, var2) ==
    [r \in {x \in BagToSet(table) : ~isnan(x[var1]) /\ ~isnan(x[var2])} |-> table[r]]

\* abs(corr_matrix[var1, var2]) > threshold with threshold = 0.7, as
\* r^2 > 0.49 on the pairwise-complete rows: r = cov / sqrt(var1 * var2),
\* cov = n * sum(xy) - sum(x) * sum(y); r is NaN, and the comparison
\* False, when a column is empty or constant.
high_correlation(table, var1, var2) ==
    IF ~({var1, var2} \subseteq MeasuredColumns) THEN FALSE
    ELSE LET rows == pairwise_complete(table, var1, var2)
             n == BagCardinality(rows)
             sx == BagSum(rows, [r \in BagToSet(rows) |-> r[var1]])
             sy == BagSum(rows, [r \in BagToSet(rows) |-> r[var2]])
             sxy == BagSum(rows, [r \in BagToSet(rows) |-> r[var1] * r[var2]])
             sxx == BagSum(rows, [r \in BagToSet(rows) |-> r[var1] * r[var1]])
             syy == BagSum(rows, [r \in BagToSet(rows) |-> r[var2] * r[var2]])
             cov == n * sxy - sx * sy
             varx == n * sxx - sx * sx
             vary == n * syy - sy * sy
         IN  /\ varx > 0
             /\ vary > 0
             /\ 100 * cov * cov > 49 * varx * vary

\* high_corr_pairs: the pairs i < j of the matrix above the threshold.
high_corr_pairs(table) ==
    { <<proc_env_columns[i], proc_env_columns[j]>> :
        <<i, j>> \in { p \in (DOMAIN proc_env_columns) \X (DOMAIN proc_env_columns) :
                        /\ p[1] < p[2]
                        /\ high_correlation(table, proc_env_columns[p[1]],
                                            proc_env_columns[p[2]]) } }

\* vars_to_remove: of a pair above the threshold, pH and O2Con give way to
\* TempW, and CDOM to Turbidity.
vars_to_remove(table) ==
    { var \in {"pH", "O2Con", "CDOM"} :
        \E pair \in high_corr_pairs(table) :
            /\ var \in {pair[1], pair[2]}
            /\ (IF var = "CDOM" THEN "Turbidity" ELSE "TempW") \in {pair[1], pair[2]} }

recommended_vars ==
    <<"TempW", "Salinity", "CHL", "Ice_density", "Detph", "Turbidity", "WindSpeed2M">>

\* analyze_environment: what it assigns to self.selected_env_vars.
analyze_environment(table) == recommended_vars

\* One more row of the file read by load_data.
ProcAddRow ==
    /\ proc_env_vars = <<>>
    /\ BagCardinality(proc_data) < MaxProcRows
    /\ \E r \in ProcRows : proc_data' = proc_data (+) SetToBag({r})
    /\ UNCHANGED <<proc_env_vars, env_swd>>
    /\ UNCHANGED <<baseVars, prepVars, convVars>>

AnalyzeEnvironment ==
    /\ proc_env_vars = <<>>
    /\ proc_env_vars' = analyze_environment(proc_data)
    /\ UNCHANGED <<proc_data, env_swd>>
    /\ UNCHANGED <<baseVars, prepVars, convVars>>

\* prepare_environmental_layers: the columns of maxent_environment_swd.csv
PrepareEnvironmentalLayers ==
    /\ proc_env_vars # <<>>
    /\ env_swd = <<>>
    /\ env_swd' = <<"longitude", "latitude">> \o proc_env_vars
    /\ UNCHANGED <<proc_data, proc_env_vars>>
    /\ UNCHANGED <<baseVars, prepVars, convVars>>

\* MaxEntDataProcessor.__init__
ProcInit ==
    /\ proc_data = EmptyBag
    /\ proc_env_vars = <<>>
    /\ env_swd = <<>>

RestInit ==
    /\ PrepInit
    /\ ConvInit
    /\ ProcInit

\* The analyzer object as __init__ leaves it.
HabInit ==
    /\ self_data = EmptyBag
    /\ species_data = <<>>
    /\ habitat_suitability = <<>>

TabInit ==
    /\ data = EmptyBag
    /\ script = "none"
    /\ exit = "none"
    /\ out = <<>>
    /\ SCIPY_AVAILABLE = TRUE
    /\ HabInit
    /\ AscInit
    /\ GuiInit
    /\ RestInit

InitShare == TabInit
NextShare ==
    \/ AddShareRow
    \/ RunShare
    \/ RunShareByClass
    \/ RunRichnessRegionMonth
    \/ RunRegionRate
SpecShare == InitShare /\ [][NextShare]_vars

InitShannon == TabInit
NextShannon == AddShannonRow \/ RunShannon
SpecShannon == InitShannon /\ [][NextShannon]_vars

InitRich == TabInit
NextRich ==
    \/ AddRichRow
    \/ RunRichnessYear
    \/ RunRichnessRegion
    \/ RunRichnessMonth
    \/ RunRichnessRegionMonth
SpecRich == InitRich /\ [][NextRich]_vars

(***************************************************************************)
(* The region scripts on tables of two regions: one record of species A on *)
(* 01-Jan per region.  A region code is a numeric prefix followed by a     *)
(* letter suffix, of MaxCodeLen characters at most.                        *)
(***************************************************************************)
MaxCodeLen == 3

SeqsUpTo(S, n) == UNION {[1..k -> S] : k \in 0..n}

RegionCodes ==
    { number \o letter :
        number \in SeqsUpTo({"0", "1", "2", "5"}, MaxCodeLen),
        letter \in SeqsUpTo({"A", "B"}, MaxCodeLen) }
    \cap UNION {[1..k -> {"0", "1", "2", "5", "A", "B"}] : k \in 1..MaxCodeLen}

InitSort ==
    /\ \E r1 \in RegionCodes, r2 \in RegionCodes :
         data = SetToBag({Row("A", D01Jan, r1, 1), Row("A", D01Jan, r2, 1)})
    /\ script = "none"
    /\ exit = "none"
    /\ out = <<>>
    /\ SCIPY_AVAILABLE = TRUE
    /\ HabInit
    /\ AscInit
    /\ GuiInit
    /\ RestInit
NextSort == RunRichnessRegion \/ RunRichnessRegionMonth
SpecSort == InitSort /\ [][NextSort]_vars

InitHab ==
    /\ data = EmptyBag
    /\ script = "none"
    /\ exit = "none"
    /\ out = <<>>
    /\ SCIPY_AVAILABLE \in BOOLEAN
    /\ HabInit
    /\ AscInit
    /\ GuiInit
    /\ RestInit
NextHab == AddObs \/ LoadAndAnalyze \/ GenerateMaps
SpecHab == InitHab /\ [][NextHab]_vars

InitAsc == TabInit
NextAsc == SaveMonthlyLayer \/ OtherFile \/ ReadAscFile
SpecAsc == InitAsc /\ [][NextAsc]_vars

InitGui == TabInit
NextGui ==
    \/ SelectFile
    \/ SelectFileReadHeader
    \/ SelectFileReadData
    \/ VisualizeThreaded
    \/ Worker
    \/ VisualizationCallback
SpecGui == InitGui /\ [][NextGui]_vars

\* The threads of visualize are scheduled, a handler of the event loop runs
\* to its end, and the event loop gets to every callback that root.after
\* queued, however many files the user selects.
FairGui ==
    /\ WF_vars(Worker)
    /\ WF_vars(SelectFileReadHeader)
    /\ WF_vars(SelectFileReadData)
    /\ SF_vars(VisualizationCallback)
SpecGuiFair == SpecGui /\ FairGui

InitPrep == TabInit
NextPrep ==
    \/ BrowseFile
    \/ LoadData
    \/ LoadDataResume
    \/ ToggleSpecies
    \/ RefreshSpeciesList
    \/ ToggleEnvVar
    \/ RefreshEnvVars
    \/ ProcessData
    \/ ProcessDataResume
    \/ ExportFiles
    \/ ExportFilesResume
SpecPrep == InitPrep /\ [][NextPrep]_vars

InitConv == TabInit
NextConv == ConvertAllMonthlyLayers
SpecConv == InitConv /\ [][NextConv]_vars

InitProc == TabInit
NextProc == ProcAddRow \/ AnalyzeEnvironment \/ PrepareEnvironmentalLayers
SpecProc == InitProc /\ [][NextProc]_vars

(***************************************************************************)
(* Properties of the percentage-share scripts.                             *)
(***************************************************************************)
RECURSIVE Prod(_)
Prod(f) ==
    IF DOMAIN f = {} THEN 1
    ELSE LET x == CHOOSE y \in DOMAIN f : TRUE
         IN  f[x] * Prod([y \in DOMAIN f \ {x} |-> f[y]])

\* The fractions of the rows B add up to n (all denominators nonzero).
SharesSumTo(B, n) ==
    /\ \A g \in B : g.percentage.den # 0
    /\ Sum([g \in B |->
            g.percentage.num * Prod([h \in B \ {g} |-> h.percentage.den])])
         = n * Prod([h \in B |-> h.percentage.den])

ShareRan == script \in {"share", "share_class"}

\* The rows of one output file that belong to the parent bucket of row g.
Bucket(rows, g) == {h \in rows : h.Date = g.Date}
BucketTotal(rows, g) == Sum([h \in Bucket(rows, g) |-> h.Count])

FileInput(f) ==
    IF f = "Species_ratio" THEN share_dropna(data)
    ELSE {r \in share_dropna_class(data) :
            r.Class = (IF f = "Mammals_ratio" THEN "Mammals" ELSE "Avians")}

\* The files a script writes when it has rows to write.
FilesOf(sc) ==
    IF sc = "share" THEN {"Species_ratio"} ELSE {"Mammals_ratio", "Avians_ratio"}

MonthOf(r) == to_period_M(to_datetime_coerce(r.Date))
MonthSpeciesCount(rows, m, sp) ==
    CountSum(data, {r \in rows : MonthOf(r) = m /\ r.Species = sp})
MonthCount(rows, m) == CountSum(data, {r \in rows : MonthOf(r) = m})

SameFraction(a, b) == a.den # 0 /\ b.den # 0 /\ a.num * b.den = b.num * a.den

\* C2: the share output has exactly one row per (month, species) pair of the
\* input, and its percentage is 100 x the species' Count of the month over the
\* Count of all species of the month, whatever the days observed in the month.
C2_OneRowPerMonthSpecies ==
    ShareRan =>
        \A f \in FilesOf(script) :
            \A r \in FileInput(f) :
                MonthCount(FileInput(f), MonthOf(r)) # 0 =>
                    /\ f \in DOMAIN out
                    /\ \E g \in out[f] :
                         /\ {h \in out[f] : to_period_M(h.Date) = MonthOf(r)
                                             /\ h.Species = r.Species} = {g}
                         /\ SameFraction(g.percentage,
                              Percent(MonthSpeciesCount(FileInput(f), MonthOf(r), r.Species),
                                      MonthCount(FileInput(f), MonthOf(r))))

\* C3: in the 'percentage' and the 'Region_Rate' computations, a parent bucket
\* whose total is zero produces no output row, and no row written carries a
\* NaN share.
C3_NoNaNShare ==
    /\ ShareRan =>
          \A f \in DOMAIN out : \A g \in out[f] :
              /\ BucketTotal(out[f], g) # 0
              /\ g.percentage # NaNShare
    /\ script = "region_rate" =>
          \A g \in Range(out["S39_BM_RegionRateMonthly"]) :
              /\ total_species_richness_per_month(Range(out["S39_BM_RegionMonthly"]), g) # 0
              /\ g.Region_Rate # NaNShare

(***************************************************************************)
(* Properties of the richness scripts.                                     *)
(***************************************************************************)
RichScripts ==
    {"richness_year", "richness_region", "richness_month", "richness_region_month"}

\* The richness rows a script computes on the table t (before their sort).
RichnessRows(sc, t) ==
    CASE sc = "richness_year" -> {[Species_Richness |-> species_richness_year_all(t)]}
      [] sc = "richness_region" -> species_richness_by_region_groups(t)
      [] sc = "richness_month" -> species_richness_month_groups(t)
      [] sc = "richness_region_month" -> species_richness_by_region_month_groups(t)

\* The richness rows the run wrote.
RichnessOut == UNION {Range(out[f]) : f \in DOMAIN out}

\* Two richness rows of the same script are rows of the same bucket.
SameBucket(a, b) ==
    \A c \in DOMAIN a \ {"Species_Richness"} : a[c] = b[c]

\* C7: richness is monotone in the input: every bucket (whole year, region,
\* month, region x month) that a sub-table A of the table B has, B has too,
\* with a distinct-species count that is greater than or equal to A's.
C7_RichnessMonotone ==
    (script \in RichScripts /\ exit = "ok") =>
        \A A \in SubBag(data) :
            \A a \in RichnessRows(script, A) :
                \E b \in RichnessOut :
                    /\ SameBucket(a, b)
                    /\ b.Species_Richness >= a.Species_Richness

\* A region x month bucket of richness 2 of which a sub-table holds one species.
C7_Witness ==
    /\ script = "richness_region_month"
    /\ exit = "ok"
    /\ \E A \in SubBag(data) :
         \E a \in RichnessRows(script, A) : \E b \in RichnessOut :
             /\ SameBucket(a, b)
             /\ a.Species_Richness = 1
             /\ b.Species_Richness = 2

(***************************************************************************)
(* Properties of the Shannon script.                                       *)
(***************************************************************************)
\* The bag t without the rows that satisfy Drop.
Without(t, Drop(_)) == [r \in {q \in BagToSet(t) : ~Drop(q)} |-> t[r]]

UnparseableDate(r) == r.Date # NaNDate /\ ~strptime_ok(r.Date)
MissingKey(r) == r.Species = NaN \/ r.Date = NaNDate

\* C4: a row whose date fails to parse is dropped and the remaining rows are
\* still aggregated and written: the run does not abort, and it writes what it
\* writes for the table without the unparseable rows.
C4_BadDateNotFatal ==
    script = "shannon" =>
        /\ exit = "ok"
        /\ out = [f \in {"shannon_diversity_month"} |->
                    shannon_diversity_month(Without(data, UnparseableDate))]

\* C5: a record whose Species or Date is missing contributes to no aggregate:
\* the Shannon values written are those of the table without such records.
C5_MissingKeyExcluded ==
    (script = "shannon" /\ exit = "ok") =>
        out["shannon_diversity_month"] =
            shannon_diversity_month(Without(data, MissingKey))

\* The rows and the species of the month bucket of an output row.
ShannonBucket(g) == month_group(filtered_data(data), g.Date)
BucketSpecies(g) == {r.Species : r \in ShannonBucket(g)}

\* C6: the Shannon index of a month is 0 if the month holds exactly one
\* species (however many records of it) and strictly positive if two or more
\* species have a nonzero share.
C6_ShannonZeroIffOneSpecies ==
    (script = "shannon" /\ exit = "ok") =>
        \A g \in out["shannon_diversity_month"] :
            NaN \notin BucketSpecies(g) =>
                /\ Cardinality(BucketSpecies(g)) = 1 => g.Shannon_Diversity = 0
                /\ Cardinality(BucketSpecies(g)) >= 2 => g.Shannon_Diversity > 0

(***************************************************************************)
(* Properties of the region order.                                         *)
(***************************************************************************)
\* The numeric prefix of a region code (its leading digits) and the letters
\* that follow it.
RECURSIVE NumericPrefix(_)
NumericPrefix(region) ==
    IF region = <<>> \/ ~isdigit(Head(region)) THEN <<>>
    ELSE <<Head(region)>> \o NumericPrefix(Tail(region))

TrailingLetters(region) ==
    SubSeq(region, Len(NumericPrefix(region)) + 1, Len(region))

PrefixSuffixKey(region) == <<int(NumericPrefix(region)), TrailingLetters(region)>>

\* C8: the rows sorted by region_sort_key are ordered by the numeric prefix of
\* the region code compared as an integer and, on equal prefix, by the whole
\* trailing letter substring.
C8_RegionOrder ==
    (script \in {"richness_region", "richness_region_month"} /\ exit = "ok") =>
        \A f \in DOMAIN out : \A i, j \in DOMAIN out[f] :
            i < j => ~KeyLess(PrefixSuffixKey(out[f][j].Region),
                              PrefixSuffixKey(out[f][i].Region))

(***************************************************************************)
(* Properties of the habitat suitability maps (CMEMS_Maxent.py).           *)
(***************************************************************************)
\* The grid of a mapped species as it is before the rescaling.
PreRescaling(sp) ==
    LET m == habitat_suitability[sp]
    IN  combined_suitability(
            calculate_density_suitability(SCIPY_AVAILABLE, species_data[sp].data,
                                          m.lat_grid, m.lon_grid),
            calculate_environmental_suitability(species_data[sp].env_stats,
                                                m.lat_grid, m.lon_grid))

\* C9: a grid returned by _calculate_habitat_suitability whose combined grid
\* had a nonzero cell before the rescaling has every cell in [0, 1] and its
\* largest cell equal to exactly 1.0.
C9_SuitabilityInUnitRange ==
    \A sp \in DOMAIN habitat_suitability :
        LET grid == habitat_suitability[sp].suitability
            before == PreRescaling(sp)
        IN  (\E c \in DOMAIN grid : before[c] # 0) =>
                /\ \A c \in DOMAIN grid : grid[c] \in 0..ONE
                /\ \E c \in DOMAIN grid : grid[c] = ONE
                /\ grid_max(grid) = ONE

\* C9 witness: a map of several cells that the rescaling changed, with the
\* cell of the maximum at 1.0 and another cell strictly between 0 and 1.
C9_Witness ==
    /\ script = "mapped"
    /\ \E sp \in DOMAIN habitat_suitability :
        LET grid == habitat_suitability[sp].suitability
            before == PreRescaling(sp)
        IN  /\ Cardinality(DOMAIN grid) >= 4
            /\ grid_max(before) > 0
            /\ grid_max(before) # ONE
            /\ \E c \in DOMAIN grid : grid[c] = ONE
            /\ \E c \in DOMAIN grid : grid[c] \in 1..(ONE - 1)

\* C10: once the maps are generated, a species all of whose observations lie
\* at the one coordinate (lat = -70, lon = 170) has a grid with a cell at that
\* coordinate, and the suitability stored for that cell is 1.0.
C10_SinglePointCellIsOne ==
    script = "mapped" =>
        \A sp \in DOMAIN species_data :
            (\A r \in BagToSet(species_data[sp].data) : r.LAT = -70000 /\ r.LONG = 170000)
            => /\ sp \in DOMAIN habitat_suitability
               /\ LET m == habitat_suitability[sp]
                  IN  \E c \in DOMAIN m.suitability :
                        /\ m.lat_grid[c[1]] = -70000
                        /\ m.lon_grid[c[2]] = 170000
                        /\ m.suitability[c] = ONE

\* The records of species sp that are left after the cleaning.
CleanRecords(sp) == species_records(load_dropna(data), sp)

\* C11: after load_and_analyze_data and generate_species_suitability_maps a
\* species has an entry in species_data and in habitat_suitability if and only
\* if at least 15 of its records are left after the cleaning.
C11_ModelledIffFifteenRecords ==
    script = "mapped" =>
        \A sp \in {r.Species : r \in BagToSet(data)} :
            (sp \in DOMAIN species_data /\ sp \in DOMAIN habitat_suitability)
            <=> BagCardinality(CleanRecords(sp)) >= 15

\* The covariates of which species sp has at least 6 values.
UsableCovariates(sp) ==
    {v \in Range(env_vars) :
        BagSum(CleanRecords(sp),
               [r \in BagToSet(CleanRecords(sp)) |-> IF r[v] # NaNFloat THEN 1 ELSE 0]) >= 6}

\* The environmental term of the map of species sp.
EnvTerm(sp) ==
    calculate_environmental_suitability(species_data[sp].env_stats,
        habitat_suitability[sp].lat_grid, habitat_suitability[sp].lon_grid)

\* The density term of the map of species sp.
DensityTerm(sp) ==
    calculate_density_suitability(SCIPY_AVAILABLE, species_data[sp].data,
        habitat_suitability[sp].lat_grid, habitat_suitability[sp].lon_grid)

\* C12: a covariate has a statistic exactly when the species has at least 6
\* values of it, and with fewer than 2 statistics every cell of the
\* environmental term is 0.5.
C12_UniformHalfBelowTwoStats ==
    /\ \A sp \in DOMAIN species_data :
          DOMAIN species_data[sp].env_stats = UsableCovariates(sp)
    /\ \A sp \in DOMAIN habitat_suitability :
          LET env == EnvTerm(sp)
          IN  Cardinality(UsableCovariates(sp)) < 2 =>
                  \A c \in DOMAIN env : env[c] = ONE \div 2

\* C12 witness: a mapped species with exactly one usable covariate and another
\* covariate of which it has 5 values, one short of a statistic.
C12_Witness ==
    /\ script = "mapped"
    /\ \E sp \in DOMAIN habitat_suitability :
          /\ Cardinality(UsableCovariates(sp)) = 1
          /\ \E v \in Range(env_vars) :
                BagCardinality(dropna_var(species_data[sp].data, v)) = 5
          /\ LET env == EnvTerm(sp)
             IN  DOMAIN env # {} /\ \A c \in DOMAIN env : env[c] = ONE \div 2

\* A statistic far from every estimate: the score of its covariate is 0.
FarStat == [mean |-> 1000000, std |-> 0, min |-> 1000000, max |-> 1000000]

\* C13: with 2 or more statistics every usable covariate contributes a factor
\* to the environmental term: where the term is not 0 everywhere, moving the
\* statistic of any usable covariate far away changes the term.
C13_EveryCovariateContributes ==
    \A sp \in DOMAIN habitat_suitability :
        LET stats == species_data[sp].env_stats
            m == habitat_suitability[sp]
            env == EnvTerm(sp)
        IN  (Cardinality(DOMAIN stats) >= 2 /\ \E c \in DOMAIN env : env[c] # 0)
            => \A v \in DOMAIN stats :
                  calculate_environmental_suitability(
                      [stats EXCEPT ![v] = FarStat], m.lat_grid, m.lon_grid) # env

\* C14: a cell whose density term or environmental term is 0 has the combined
\* suitability 0; a combined grid of maximum 0 is returned as it is, all
\* zeros; and no cell is NaN.
C14_ZeroTermZeroCell ==
    \A sp \in DOMAIN habitat_suitability :
        LET grid == habitat_suitability[sp].suitability
            before == PreRescaling(sp)
            density == DensityTerm(sp)
            env == EnvTerm(sp)
        IN  /\ \A c \in DOMAIN grid :
                 (density[c] = 0 \/ env[c] = 0) => grid[c] = 0
            /\ grid_max(before) = 0 =>
                 /\ grid = before
                 /\ \A c \in DOMAIN grid : grid[c] = 0
            /\ \A c \in DOMAIN grid : grid[c] # NaNFloat

\* C14 witness: a map with a cell of density 0 where the environmental term is
\* not 0, or the other way round, and a map whose combined grid is all zeros.
C14_Witness ==
    /\ script = "mapped"
    /\ \E sp \in DOMAIN habitat_suitability :
          LET grid == habitat_suitability[sp].suitability
              density == DensityTerm(sp)
              env == EnvTerm(sp)
          IN  /\ DOMAIN grid # {}
              /\ \E c \in DOMAIN grid :
                    /\ env[c] = 0
                    /\ density[c] > 0
                    /\ grid[c] = 0
              /\ grid_max(PreRescaling(sp)) = 0

(***************************************************************************)
(* Properties of the raster files (CMEMStrans.py and the ASCReader).       *)
(***************************************************************************)
\* The latitudes of a layer from north to south, and its rows in this order.
NorthToSouth(lats) == IF lats[1] >= lats[Len(lats)] THEN lats ELSE Reverse(lats)
RowsNorthToSouth(l) == IF l.lats[1] >= l.lats[Len(l.lats)] THEN l.array ELSE Reverse(l.array)

\* C15: every cell token that save_monthly_layer writes is a finite number or
\* the sentinel -9999, and every NaN or infinite cell is written as -9999.
C15_NoNaNToken ==
    layer # NoLayer =>
        \A r \in 1..Len(disk.rows) : \A c \in 1..Len(disk.rows[r]) :
            /\ disk.rows[r][c].text = ".4f" \/ disk.rows[r][c] = Token("d", NODATA)
            /\ (isnan(RowsNorthToSouth(layer)[r][c]) \/ isinf(RowsNorthToSouth(layer)[r][c]))
               => disk.rows[r][c] = Token("d", NODATA)

\* C15 witness: a layer with an infinite cell has been written, in rows that
\* were turned round.
C15_Witness ==
    /\ disk.exists
    /\ flips(layer.lats)
    /\ \E r \in 1..Len(layer.array) : \E c \in 1..Len(layer.array[r]) :
          isinf(layer.array[r][c])

\* C16: the file has the 6 header lines ncols, nrows, xllcorner, yllcorner,
\* cellsize, NODATA_value and nrows data rows from north to south, and the
\* coordinates that get_coordinates and visualize give to row r, column c of
\* the array read back are the latitude and longitude of the cell written there.
C16_CoordinatesOfRereadCells ==
    layer # NoLayer =>
        /\ [i \in 1..Len(disk.header) |-> disk.header[i][1]] =
              <<"ncols", "nrows", "xllcorner", "yllcorner", "cellsize", "NODATA_value">>
        /\ Len(disk.rows) = disk.header[2][2].value
        /\ \A r \in 1..Len(disk.rows) : \A c \in 1..Len(disk.rows[r]) :
              disk.rows[r][c] = format_cell(replace_invalid(RowsNorthToSouth(layer))[r][c])
        /\ read_result = "ok" =>
              \A r \in 1..Len(reader_data) : \A c \in 1..Len(reader_data[r]) :
                  /\ lat_mesh(header, r, c) = NorthToSouth(layer.lats)[r]
                  /\ lon_mesh(header, r, c) = layer.lons[c]

\* C17: the array read back from a file that save_monthly_layer wrote has the
\* shape of the original, is no-data exactly where the original was NaN or
\* infinite, and holds the original value, rounded to 4 decimals, elsewhere.
C17_RoundTrip ==
    (layer # NoLayer /\ read_result = "ok") =>
        LET original == RowsNorthToSouth(layer)
        IN  /\ Len(reader_data) = Len(original)
            /\ \A r \in 1..Len(original) :
                  /\ Len(reader_data[r]) = Len(original[r])
                  /\ \A c \in 1..Len(original[r]) :
                        IF isnan(original[r][c]) \/ isinf(original[r][c])
                        THEN isnan(reader_data[r][c])
                        ELSE /\ ~isnan(reader_data[r][c])
                             /\ Abs(reader_data[r][c] - original[r][c]) <= 5

\* A number that is written with the digits of the sentinel: -9999.0000.
RoundsToSentinel(v) ==
    ~isnan(v) /\ ~isinf(v) /\ RoundDiv(v, 10) * 10 = NODATA * ValueUnit

\* C17, amended: the round trip of C17 holds for every array none of whose
\* numbers is written as -9999.0000, the digits of the sentinel.
C17_RoundTripOffSentinel ==
    (layer # NoLayer /\ read_result = "ok"
        /\ \A r \in 1..Len(layer.array) : \A c \in 1..Len(layer.array[r]) :
               ~RoundsToSentinel(layer.array[r][c]))
    => C17_RoundTrip

\* C17 witness: a layer of several rows with a missing cell, written with its
\* rows turned round and read back.
C17_Witness ==
    /\ read_result = "ok"
    /\ flips(layer.lats)
    /\ \E r \in 1..Len(layer.array) : \E c \in 1..Len(layer.array[r]) :
          /\ isnan(layer.array[r][c])
          /\ isnan(reader_data[Len(layer.array) + 1 - r][c])
    /\ \E r \in 1..Len(reader_data) : \E c \in 1..Len(reader_data[r]) :
          ~isnan(reader_data[r][c])

\* The cells of the file on disk that hold the NODATA_value of its header.
SentinelCells ==
    {p \in UNION {{<<r, c>> : c \in 1..Len(disk.rows[r])} : r \in 1..Len(disk.rows)} :
        float_cell(disk.rows[p[1]][p[2]]) = nodata_value(header) * ValueUnit}

\* C18: after a successful read_asc_file every cell equal to the sentinel of
\* the header is NaN, no cell holds the sentinel as a number, and the
\* statistics of _display_file_info leave the sentinel cells out.
C18_SentinelIsNoData ==
    read_result = "ok" =>
        /\ \A p \in SentinelCells : isnan(reader_data[p[1]][p[2]])
        /\ \A r \in 1..Len(reader_data) : \A c \in 1..Len(reader_data[r]) :
              reader_data[r][c] # nodata_value(header) * ValueUnit
        /\ valid_cells(reader_data) \cap SentinelCells = {}
        /\ display_file_info(reader_data).nanmin # nodata_value(header) * ValueUnit
        /\ display_file_info(reader_data).nanmax # nodata_value(header) * ValueUnit

\* C18 witness: a file with the NODATA_value 0 has been read, with a cell 0
\* and a cell that is valid.
C18_Witness ==
    /\ read_result = "ok"
    /\ nodata_value(header) = 0
    /\ SentinelCells # {}
    /\ valid_cells(reader_data) # {}

(***************************************************************************)
(* Properties of the visualization window (MaxEntVisualizer).              *)
(***************************************************************************)
\* The threads that have not come to their end.
Running == {w \in 1..Len(workers) : workers[w].pc # "done"}

\* C19: at most one visualization thread runs at a time, and from the start
\* of a thread until its callback has run the visualize button is disabled.
C19_SingleWorker ==
    /\ Cardinality(Running) <= 1
    /\ (Running # {} \/ callbacks # <<>>) => visualize_button = "disabled"

\* C20: the coordinates, the data and the file name that one visualization
\* used all belong to the same file.
C20_OneFilePerVisualization ==
    \A w \in 1..Len(workers) :
        workers[w].file # NoWorkerFile =>
            /\ ~read_raises(GuiDisk[workers[w].file])
            /\ workers[w].header = read_header(GuiDisk[workers[w].file])
            /\ workers[w].data =
                  read_data(GuiDisk[workers[w].file], read_header(GuiDisk[workers[w].file]))

Finished == {w \in 1..Len(workers) : workers[w].pc = "done"}

C25_ButtonEnabledOnConsistentReader ==
    (gui_pc = "idle" /\ visualize_button = "normal") =>
        /\ ~read_raises(GuiDisk[current_file])
        /\ header = read_header(GuiDisk[current_file])
        /\ reader_data = read_data(GuiDisk[current_file], header)

(***************************************************************************)
(* Properties of the MaxEnt data-preparation GUI.                          *)
(***************************************************************************)

\* C21: the steps are ordered under every sequence of clicks: files are
\* written only after a process_data call has succeeded, and processed_data
\* is computed only after a load_data call has succeeded.
C21_StepsInOrder ==
    /\ exported # <<>> => "process_data" \in done
    /\ ~processed_data.none => "load_data" \in done

WrittenFrom(written, frame) ==
    \E i \in DOMAIN frame.rows :
        LET row == frame.rows[i]
        IN  /\ written.Species = row.Species
            /\ written.LONG = row.LONG
            /\ written.LAT = row.LAT
            /\ DOMAIN written.env \subseteq DOMAIN row.env
            /\ \A var \in DOMAIN written.env : written.env[var] = row.env[var]

\* C26: every row export_files writes is a row of the data that is loaded
\* when it writes: rows processed from a file loaded earlier are not
\* written once another file has been loaded.
C26_ExportedRowsFromLoadedData ==
    \A k \in DOMAIN exported :
        \A i \in DOMAIN exported[k].rows :
            WrittenFrom(exported[k].rows[i], maxent_data)

\* C27: each time export_files runs past its first check it writes its
\* files, and the environment columns of the _swd.csv files are the columns
\* of processed_data, whatever was ticked, refreshed or loaded since.
C27_ExportedColumnsAreProcessedColumns ==
    [][ (Suspended("export_files") /\ stack' = Pop) =>
            /\ exported' # <<>>
            /\ \A k \in DOMAIN exported' :
                  exported'[k].name[3] = "_swd.csv" =>
                      exported'[k].columns = processed_data.columns ]_vars

\* C28: export_files writes 2 x (number of species) + 7 distinct files: no
\* two species of processed_data share a file name.
C28_OneFilePairPerSpecies ==
    exported # <<>> =>
        Cardinality({exported[k].name : k \in DOMAIN exported}) =
            2 * Len(unique(processed_data)) + 7

(***************************************************************************)
(* Properties of the monthly-layers converter.                             *)
(***************************************************************************)

\* C23: a conversion that reaches generate_monthly_report writes the
\* report, also when no operation was attempted.
C23_ReportWritten ==
    report.status \in {"none", "not opened", "written"}

\* C29: when the dataset has a time variable, time_info holds one entry per
\* time step, with the indices 0..n-1 in order, whatever its units are.
C29_OneEntryPerTimeStep ==
    (ds.opens /\ ds.time.name # "") =>
        /\ Len(time_info) = Len(ds.time.values)
        /\ \A i \in DOMAIN time_info : time_info[i].index = i - 1

(***************************************************************************)
(* Properties of the MaxEnt data processor.                                *)
(***************************************************************************)

\* C24: no two of the variables written to maxent_environment_swd.csv have
\* an absolute correlation above the threshold 0.7.
C24_NoCorrelatedPairSelected ==
    \A i \in DOMAIN env_swd, j \in DOMAIN env_swd :
        i < j => ~high_correlation(proc_data, env_swd[i], env_swd[j])

(***************************************************************************)
(* Properties of the two region_sort_key functions.                        *)
(***************************************************************************)

\* C30: the rows either script writes, sorted by its own region_sort_key, are
\* in order under the region_sort_key of the other script as well: the two
\* functions order the region codes of every table the same way.
C30_SameRegionOrder ==
    (script \in {"richness_region", "richness_region_month"} /\ exit = "ok") =>
        \A f \in DOMAIN out : \A i, j \in DOMAIN out[f] :
            i < j =>
                /\ ~KeyLess(region_sort_key(out[f][j].Region),
                            region_sort_key(out[f][i].Region))
                /\ ~KeyLess(region_sort_key_region(out[f][j].Region),
                            region_sort_key_region(out[f][i].Region))

====
